---- MODULE Spec2Model ----
(***************************************************************************)
(* Model of the repository ingestion and chunk-ranking pipeline of the     *)
(* vector search MCP server: the chunker, the repository identity          *)
(* derivation, the result ranking of the vector store, the search entry    *)
(* points and the repository walk.                                         *)
(*                                                                         *)
(* A Go string is a sequence of one-character strings, so that Split,      *)
(* Contains, HasPrefix, HasSuffix and the slicing of the code are computed *)
(* and not assumed.                                                        *)
(***************************************************************************)
EXTENDS Integers, Sequences, FiniteSets, TLC

VARIABLES
    content,      \* chunker: the text handed to SplitIntoChunks
    chunkSize,    \* chunker: the chunkSize argument
    chunks,       \* chunker: the returned chunks
    chunkerPc,    \* chunker: "idle" | "ready" | "done"
    repoURL,      \* identity derivation: the URL U given by the caller
    repoPlain,    \* identity derivation: the repository derived from U
    repoGit,      \* identity derivation: the repository derived from U + ".git"
    rankMatches,  \* ranking: queryResp.Matches, in the vector store's relevance order
    rankResults,  \* ranking: the chunks Search returned
    rankPc,       \* ranking: "idle" | "ready" | "done" | "failed"
    searchIndex,  \* search: the vectors of the index that pass the filter, by relevance
    searchEntry,  \* search: the entry point that was called
    searchReq,    \* search: the request it was called with
    searchOut,    \* search: what the entry point returned and which calls it made
    searchPc,     \* search: "idle" | "ready" | "done"
    searchFailAt, \* search: the vendor call that failed during the request, if one did
    indexArgs,    \* ingestion: which indexer runs, and its repoURL and branch
    indexTree,    \* ingestion: the entries of the clone, in walk order
    indexPc,      \* ingestion: "idle" | "ready" | "cloning" | "checkout" | "walking" | "returned"
    tempDir,      \* ingestion: whether the temporary directory was created and exists
    walk,         \* ingestion: the next entry of the walk and the three counters
    visited,      \* ingestion: the entries the walk callback has handled
    vendorCalls,  \* ingestion: the embedding and store calls made
    indexResult,  \* ingestion: what IndexRepository returned, and on which exit
    faults,       \* ingestion: how many calls have failed so far
    indexReq,     \* ingestion: the entry point that was called, and its request
    gitCalls,     \* ingestion: the git commands run so far
    portIn,       \* vector store: the call made on the production store and on the mock
    prodOut,      \* vector store: what VectorStore / PineconeStore returned
    mockOut,      \* vector store: what MockVectorStore / MockPineconeStore returned
    fileIn,       \* processFile: the arguments of a direct call, and the vendors behind it
    fileOut,      \* processFile: what it returned and the vendor calls it made
    filePc,       \* processFile: "idle" | "ready" | "done"
    classIn,      \* classification: the path and content of one file
    classOut,     \* classification: what the walk callback decided for it
    classPc,      \* classification: "idle" | "ready" | "done"
    tempDirs,     \* concurrent ingestion: the state of each temporary directory name
    invocations,  \* concurrent ingestion: the state of each IndexRepository call
    stdinChunk,   \* stdio server: the lines of the chunk received on stdin
    stdinPc,      \* stdio server: "idle" | "waiting" | "handled"
    backendCalls, \* stdio server: the requests forwarded to the Go server, unanswered
    stdout        \* stdio server: the messages written to stdout

chunkerVars == <<content, chunkSize, chunks, chunkerPc>>

deriveVars == <<repoURL, repoPlain, repoGit>>

rankVars == <<rankMatches, rankResults, rankPc>>

searchVars == <<searchIndex, searchEntry, searchReq, searchOut, searchPc, searchFailAt>>

indexVars ==
    <<indexArgs, indexTree, indexPc, tempDir, walk, visited, vendorCalls, indexResult, faults,
      indexReq, gitCalls>>

portVars == <<portIn, prodOut, mockOut>>

fileVars == <<fileIn, fileOut, filePc>>

classVars == <<classIn, classOut, classPc>>

concVars == <<tempDirs, invocations>>

stdioVars == <<stdinChunk, stdinPc, backendCalls, stdout>>

vars ==
    <<chunkerVars, deriveVars, rankVars, searchVars, indexVars, portVars, fileVars, classVars,
      concVars, stdioVars>>

-----------------------------------------------------------------------------
(* Bounds of the model.                                                    *)

MaxTextLen == 5
MaxChunkSize == 3
MaxUrlTokens == 5
MaxMatches == 3
MaxIndexLen == 12
MaxFaults == 2

-----------------------------------------------------------------------------
(* The string functions of the Go standard library that the code calls.    *)

NL == "\n"

Min(a, b) == IF a < b THEN a ELSE b

\* strings.HasPrefix(s, prefix)
HasPrefix(s, prefix) ==
    /\ Len(prefix) <= Len(s)
    /\ SubSeq(s, 1, Len(prefix)) = prefix

\* strings.HasSuffix(s, suffix)
HasSuffix(s, suffix) ==
    /\ Len(suffix) <= Len(s)
    /\ SubSeq(s, Len(s) - Len(suffix) + 1, Len(s)) = suffix

\* strings.Contains(s, substr)
Contains(s, substr) ==
    \E i \in 1..(Len(s) - Len(substr) + 1) : SubSeq(s, i, i + Len(substr) - 1) = substr

\* The positions of the separator character sep in s.
SepPositions(s, sep) == {i \in 1..Len(s) : s[i] = sep}

\* strings.Split(s, sep) for a one-character separator: the pieces between
\* the separators, empty pieces included; always at least one piece.
Split(s, sep) ==
    LET P == SepPositions(s, sep)
        n == Cardinality(P)
        pos(k) == CHOOSE i \in P : Cardinality({j \in P : j < i}) = k - 1
        first(k) == IF k = 1 THEN 1 ELSE pos(k - 1) + 1
        last(k) == IF k = n + 1 THEN Len(s) ELSE pos(k) - 1
    IN  [k \in 1..(n + 1) |-> SubSeq(s, first(k), last(k))]

\* strings.Join(elems, sep) for a one-character separator.
RECURSIVE Join(_, _)
Join(elems, sep) ==
    IF Len(elems) = 0 THEN <<>>
    ELSE IF Len(elems) = 1 THEN elems[1]
    ELSE elems[1] \o <<sep>> \o Join(Tail(elems), sep)

-----------------------------------------------------------------------------
(* Repository identity derivation, as processFile computes it.             *)

GitSuffix == <<".", "g", "i", "t">>

Unset == "unset"
Panic == "panic"

\* The result of a call that has not happened yet is Unset.
DeriveIdle ==
    /\ repoURL = <<>>
    /\ repoPlain = Unset
    /\ repoGit = Unset

\* repoName with one trailing ".git" cut off.
StripGitSuffixNever(repoName) == repoName

StripGitSuffix(repoName) ==
    IF HasSuffix(repoName, GitSuffix)
    THEN SubSeq(repoName, 1, Len(repoName) - 4)
    ELSE repoName

\* repository := "owner/name" from the last two pieces of the URL; indexing
\* parts[len(parts)-2] panics when the URL holds no "/".
DeriveRepository(url) ==
    LET parts == Split(url, "/")
    IN  IF Len(parts) < 2 THEN Panic
        ELSE LET repoOwner == parts[Len(parts) - 1]
                 repoName == StripGitSuffix(parts[Len(parts)])
             IN  repoOwner \o <<"/">> \o repoName

-----------------------------------------------------------------------------
(* Result ranking: the parse-and-boost loop of PineconeStore.Search and    *)
(* VectorStore.Search.                                                     *)

ImportantFiles == <<
    <<"m", "a", "i", "n", ".", "g", "o">>,
    <<"R", "E", "A", "D", "M", "E", ".", "m", "d">>,
    <<"g", "o", ".", "m", "o", "d">>,
    <<"h", "a", "n", "d", "l", "e", "r", "s", "/">>,
    <<"m", "o", "d", "e", "l", "s", "/">>,
    <<"r", "o", "u", "t", "e", "s", "/">>,
    <<"c", "o", "n", "t", "r", "o", "l", "l", "e", "r", "s", "/">>,
    <<"s", "e", "r", "v", "i", "c", "e", "s", "/">> >>

RankIdle ==
    /\ rankMatches = <<>>
    /\ rankResults = <<>>
    /\ rankPc = "idle"

\* A match of the query response: kind "ok" carries a vector with metadata;
\* "nil" is a nil match, "nilVector" a match without vector, "nilMetadata" a
\* vector without metadata.  The metadata is what Store wrote: five strings.
MatchKinds == {"ok", "nil", "nilVector", "nilMetadata"}

\* chunk := models.CodeChunk{...} from the metadata of a match.
ChunkOfMatch(match) ==
    [Content |-> match.metadata.content,
     FilePath |-> match.metadata.filePath,
     Repository |-> match.metadata.repository,
     Branch |-> match.metadata.branch,
     Language |-> match.metadata.language]

\* The loop over importantFiles for one chunk without its break: the chunk
\* is appended once for every marker its path contains.
RECURSIVE PrioritizeNoBreak(_, _, _)
PrioritizeNoBreak(chunk, j, st) ==
    IF j > Len(ImportantFiles) THEN st
    ELSE IF Contains(chunk.FilePath, ImportantFiles[j])
         THEN PrioritizeNoBreak(chunk, j + 1,
                  [prioritized |-> Append(st.prioritized, chunk), isImportant |-> TRUE])
         ELSE PrioritizeNoBreak(chunk, j + 1, st)

\* The loop over importantFiles for one chunk: at the first marker the path
\* contains, the chunk is appended to prioritizedResults and the loop breaks.
RECURSIVE Prioritize(_, _, _)
Prioritize(chunk, j, st) ==
    IF j > Len(ImportantFiles) THEN st
    ELSE IF Contains(chunk.FilePath, ImportantFiles[j])
         THEN [prioritized |-> Append(st.prioritized, chunk), isImportant |-> TRUE]
         ELSE Prioritize(chunk, j + 1, st)

\* The loop over queryResp.Matches leaving at the first match that is nil
\* or has no vector or no metadata, instead of passing over it.
RECURSIVE ParseMatchesUntilInvalid(_, _, _, _)
ParseMatchesUntilInvalid(matches, i, prioritizedResults, otherResults) ==
    IF i > Len(matches) \/ matches[i].kind # "ok" THEN prioritizedResults \o otherResults
    ELSE LET chunk == ChunkOfMatch(matches[i])
             st == Prioritize(chunk, 1,
                       [prioritized |-> prioritizedResults, isImportant |-> FALSE])
         IN  ParseMatchesUntilInvalid(matches, i + 1, st.prioritized,
                                      IF st.isImportant THEN otherResults
                                      ELSE Append(otherResults, chunk))

\* The loop over queryResp.Matches and the final append of otherResults to
\* prioritizedResults.
RECURSIVE ParseMatches(_, _, _, _)
ParseMatches(matches, i, prioritizedResults, otherResults) ==
    IF i > Len(matches) THEN prioritizedResults \o otherResults
    ELSE IF matches[i].kind # "ok"
         THEN ParseMatches(matches, i + 1, prioritizedResults, otherResults)
         ELSE LET chunk == ChunkOfMatch(matches[i])
                  st == Prioritize(chunk, 1,
                            [prioritized |-> prioritizedResults, isImportant |-> FALSE])
              IN  ParseMatches(matches, i + 1, st.prioritized,
                               IF st.isImportant THEN otherResults
                               ELSE Append(otherResults, chunk))

RankResults(matches) == ParseMatches(matches, 1, <<>>, <<>>)

-----------------------------------------------------------------------------
(* The search entry points and what they call.                             *)

DefaultLimit == 10
ChatLimit == 5
ToolLimit == 10
SearcherLimit == 10
HandlerLimit == 10
TopResults == 3
MinContentLen == 10

MainBranch == <<"m", "a", "i", "n">>
GitDirMarker == <<".", "g", "i", "t", "/">>
GitPrefix == <<".", "g", "i", "t">>
VarFolders == <<"v", "a", "r", "/", "f", "o", "l", "d", "e", "r", "s">>

\* A value of a map[string]interface{} or of a struct field: a Go value
\* with its dynamic type, or no entry at all.
Missing == [t |-> "missing", v |-> 0]
StrVal(str) == [t |-> "string", v |-> str]
IntVal(n) == [t |-> "int", v |-> n]
FloatVal(n) == [t |-> "float64", v |-> n]

NoRequest == [action |-> "none", query |-> Missing, repository |-> Missing,
              branch |-> Missing, limit |-> Missing]

NoOutput == [status |-> "none", chunks |-> <<>>, summarized |-> FALSE,
             forwarded |-> <<>>, calls |-> <<>>, filter |-> <<>>]

SearchIdle ==
    /\ searchIndex = <<>>
    /\ searchEntry = "none"
    /\ searchReq = NoRequest
    /\ searchOut = NoOutput
    /\ searchPc = "idle"
    /\ searchFailAt = "none"

\* The vendor calls of one request fail at most once: failAt names the
\* call that fails, "none" when all succeed.
FailPoints == {"none", "embed", "search", "summary"}

\* index.QueryByVectorValues with TopK: uint32(limit): the TopK most relevant
\* vectors that pass the metadata filter.  The conversion leaves a limit in
\* 0..2^31-1 as it is and turns a negative limit into 2^32 + limit, which is
\* more than any index of the model holds.
QueryByVectorValues(index, limit) ==
    IF limit < 0 THEN index ELSE SubSeq(index, 1, Min(limit, Len(index)))

\* PineconeStore.Search / VectorStore.Search after a successful query.
StoreSearch(index, limit) == RankResults(QueryByVectorValues(index, limit))

Output(status, chunkList, calls, filter) ==
    [status |-> status, chunks |-> chunkList, summarized |-> FALSE,
     forwarded |-> <<>>, calls |-> calls, filter |-> filter]

Summarized(status, chunkList, forwarded, calls, filter) ==
    [status |-> status, chunks |-> chunkList, summarized |-> TRUE,
     forwarded |-> forwarded, calls |-> calls, filter |-> filter]

\* VectorSearchService.Search on a request struct.
ServiceSearch(index, query, repository, reqBranch, reqLimit, failAt) ==
    IF failAt = "embed" THEN Output("error", <<>>, <<"embed">>, <<>>)
    ELSE LET branch == IF reqBranch = <<>> THEN MainBranch ELSE reqBranch
             limit == IF reqLimit <= 0 THEN DefaultLimit ELSE reqLimit
             filter == <<repository, branch, limit>>
         IN  IF failAt = "search"
             THEN Output("error", <<>>, <<"embed", "search">>, filter)
             ELSE Output("ok", StoreSearch(index, limit), <<"embed", "search">>, filter)

\* SearchWithSummary without the return after a failed Search.
ServiceSearchWithSummaryRegardless(index, query, repository, reqBranch, reqLimit, failAt) ==
    LET r == ServiceSearch(index, query, repository, reqBranch, reqLimit, failAt)
    IN  Summarized(IF failAt = "summary" THEN "error" ELSE r.status,
                   <<>>, r.chunks, Append(r.calls, "summary"), r.filter)

\* VectorSearchService.SearchWithSummary: Search, then every chunk goes to
\* GenerateEnhancedSummary.
ServiceSearchWithSummary(index, query, repository, reqBranch, reqLimit, failAt) ==
    LET r == ServiceSearch(index, query, repository, reqBranch, reqLimit, failAt)
    IN  IF r.status # "ok" THEN r
        ELSE Summarized(IF failAt = "summary" THEN "error" ELSE "ok",
                        <<>>, r.chunks, Append(r.calls, "summary"), r.filter)

\* MCPServerService.HandleCursorAction.
CursorAction(index, req, failAt) ==
    IF req.action = "connect" THEN Output("ok", <<>>, <<>>, <<>>)
    ELSE IF req.action # "search" THEN Output("error", <<>>, <<>>, <<>>)
    ELSE IF req.query.t # "string" \/ req.repository.t # "string"
         THEN Output("panic", <<>>, <<>>, <<>>)
    ELSE ServiceSearch(index, req.query.v, req.repository.v,
                       IF req.branch.t = "string" THEN req.branch.v ELSE <<>>,
                       IF req.limit.t = "int" THEN req.limit.v ELSE 0,
                       failAt)

\* MCPServerService.HandleChat.
ServiceChat(index, message, repository, failAt) ==
    ServiceSearch(index, message, repository, <<>>, ChatLimit, failAt)

\* VectorSearchTool.Execute.
ToolExecute(index, req, failAt) ==
    IF req.query.t # "string" THEN Output("error", <<>>, <<>>, <<>>)
    ELSE IF req.repository.t # "string" THEN Output("error", <<>>, <<>>, <<>>)
    ELSE LET branch == IF req.branch.t = "string" THEN req.branch.v ELSE MainBranch
             filter == <<req.repository.v, branch, ToolLimit>>
         IN  IF failAt = "embed" THEN Output("error", <<>>, <<"embed">>, <<>>)
             ELSE IF failAt = "search"
                  THEN Output("error", <<>>, <<"embed", "search">>, filter)
                  ELSE Output("ok", StoreSearch(index, ToolLimit),
                              <<"embed", "search">>, filter)

\* unicode.IsSpace for the characters of the model.
IsSpace(c) == c \in {" ", "\t", "\n", "\r"}

\* strings.TrimSpace(s)
TrimSpace(str) ==
    LET keep == {i \in 1..Len(str) : ~IsSpace(str[i])}
    IN  IF keep = {} THEN <<>>
        ELSE SubSeq(str, CHOOSE i \in keep : \A j \in keep : i <= j,
                         CHOOSE i \in keep : \A j \in keep : j <= i)

\* The filter of VectorSearcher.Search: TRUE for a result that is kept.
SearcherKeeps(result) ==
    /\ ~Contains(result.FilePath, GitDirMarker)
    /\ ~HasPrefix(result.FilePath, GitPrefix)
    /\ ~Contains(result.FilePath, VarFolders)
    /\ ~(Len(TrimSpace(result.Content)) < MinContentLen)

\* topResults: the first three of the filtered results.
TopOf(filteredResults) ==
    IF Len(filteredResults) > TopResults
    THEN SubSeq(filteredResults, 1, TopResults)
    ELSE filteredResults

\* VectorSearcher.Search.
SearcherSearch(index, query, repository, branch, failAt) ==
    LET filter == <<repository, branch, SearcherLimit>>
    IN  IF failAt = "embed" THEN Output("error", <<>>, <<"embed">>, <<>>)
        ELSE IF failAt = "search"
             THEN Output("error", <<>>, <<"embed", "search">>, filter)
             ELSE LET results == StoreSearch(index, SearcherLimit)
                      topResults == TopOf(SelectSeq(results, SearcherKeeps))
                  IN  IF failAt = "summary"
                      THEN Summarized("error", <<>>, topResults,
                                      <<"embed", "search", "summary">>, filter)
                      ELSE Summarized("ok", topResults, topResults,
                                      <<"embed", "search", "summary">>, filter)

\* MCPServer.HandleVectorSearch of the tool server: validation, the
\* vectorSearch tool, then every chunk goes to generateEnhancedSummary.
ToolHandleVectorSearch(index, query, repository, reqBranch, failAt) ==
    IF query = <<>> \/ repository = <<>> THEN Output("error", <<>>, <<>>, <<>>)
    ELSE LET branch == IF reqBranch = <<>> THEN MainBranch ELSE reqBranch
             r == ToolExecute(index,
                      [action |-> "search", query |-> StrVal(query),
                       repository |-> StrVal(repository), branch |-> StrVal(branch),
                       limit |-> Missing],
                      failAt)
         IN  IF r.status # "ok" THEN r
             ELSE Summarized(IF failAt = "summary" THEN "error" ELSE "ok",
                             <<>>, r.chunks, Append(r.calls, "summary"), r.filter)

\* VectorSearchHandler.HandleVectorSearch of the service server: validation,
\* then SearchWithSummary with limit 10.
ServiceHandleVectorSearch(index, query, repository, reqBranch, failAt) ==
    IF query = <<>> \/ repository = <<>> THEN Output("error", <<>>, <<>>, <<>>)
    ELSE ServiceSearchWithSummary(index, query, repository,
                                  IF reqBranch = <<>> THEN MainBranch ELSE reqBranch,
                                  HandlerLimit, failAt)

-----------------------------------------------------------------------------
(* Chunker: SplitIntoChunks / splitIntoChunks.                             *)

\* The loop over the lines and the final append, with the loop variables
\* chunks, currentChunk and currentSize as accumulators.
RECURSIVE ChunkLoop(_, _, _, _, _, _)
ChunkLoop(lines, i, size, acc, currentChunk, currentSize) ==
    IF i > Len(lines)
    THEN IF currentSize > 0 THEN Append(acc, currentChunk) ELSE acc
    ELSE LET line == lines[i]
             lineSize == Len(line)
         IN  IF currentSize + lineSize > size /\ currentSize > 0
             THEN ChunkLoop(lines, i + 1, size, Append(acc, currentChunk), line, lineSize)
             ELSE ChunkLoop(lines, i + 1, size, acc,
                            (IF currentSize > 0 THEN currentChunk \o <<NL>> ELSE currentChunk)
                                \o line,
                            currentSize + lineSize + 1)

SplitIntoChunks(text, size) == ChunkLoop(Split(text, NL), 1, size, <<>>, <<>>, 0)

-----------------------------------------------------------------------------
(* Ingestion: the file classification of processDirectory and the chunk    *)
(* loop of processFile.  File content is a sequence of bytes; the two      *)
(* bytes that are not ASCII text are NulByte (0) and HighByte (above 127). *)

NulByte == "NUL"
HighByte == "HIGH"

MaxFileSize == 100000
SniffLen == 1000
IndexChunkSize == 1000

DotGit == <<".", "g", "i", "t">>
DotGitSlash == <<".", "g", "i", "t", "/">>
Dirc == <<"D", "I", "R", "C">>
IndexLock == <<"i", "n", "d", "e", "x", ".", "l", "o", "c", "k">>
TempDirMarker == <<"/", "r", "e", "p", "o", "-">>

UpperLetters == <<"A", "B", "C", "D", "E", "F", "G", "H", "I", "J", "K", "L", "M", "N", "O", "P", "Q", "R", "S", "T", "U", "V", "W", "X", "Y", "Z">>
LowerLetters == <<"a", "b", "c", "d", "e", "f", "g", "h", "i", "j", "k", "l", "m", "n", "o", "p", "q", "r", "s", "t", "u", "v", "w", "x", "y", "z">>

\* strings.ToLower on ASCII text.
ToLower(s) ==
    [i \in 1..Len(s) |->
        IF \E k \in 1..Len(UpperLetters) : UpperLetters[k] = s[i]
        THEN LowerLetters[CHOOSE k \in 1..Len(UpperLetters) : UpperLetters[k] = s[i]]
        ELSE s[i]]

\* strings.Index(s, substr): the 0-based offset of the first occurrence, or -1.
Index(s, substr) ==
    LET P == {i \in 1..(Len(s) - Len(substr) + 1) : SubSeq(s, i, i + Len(substr) - 1) = substr}
    IN  IF P = {} THEN -1 ELSE (CHOOSE i \in P : \A j \in P : i <= j) - 1

\* strings.LastIndex(s, substr): the 0-based offset of the last occurrence, or -1.
LastIndex(s, substr) ==
    LET P == {i \in 1..(Len(s) - Len(substr) + 1) : SubSeq(s, i, i + Len(substr) - 1) = substr}
    IN  IF P = {} THEN -1 ELSE (CHOOSE i \in P : \A j \in P : i >= j) - 1

\* The Go slice s[from:] for a 0-based offset.
SliceFrom(s, from) == SubSeq(s, from + 1, Len(s))

\* info.Name(): the last element of the path.
Base(path) == SliceFrom(path, LastIndex(path, <<"/">>) + 1)

\* filepath.Ext: the suffix beginning at the final dot in the final element
\* of the path, empty when that element has no dot.
Ext(path) ==
    LET dot == LastIndex(Base(path), <<".">>)
    IN  IF dot = -1 THEN <<>> ELSE SliceFrom(Base(path), dot)

BinaryExtensions == {
    <<".", "j", "p", "g">>,
    <<".", "j", "p", "e", "g">>,
    <<".", "p", "n", "g">>,
    <<".", "g", "i", "f">>,
    <<".", "b", "m", "p">>,
    <<".", "i", "c", "o">>,
    <<".", "s", "v", "g">>,
    <<".", "z", "i", "p">>,
    <<".", "t", "a", "r">>,
    <<".", "g", "z">>,
    <<".", "r", "a", "r">>,
    <<".", "7", "z">>,
    <<".", "p", "d", "f">>,
    <<".", "d", "o", "c">>,
    <<".", "d", "o", "c", "x">>,
    <<".", "x", "l", "s">>,
    <<".", "x", "l", "s", "x">>,
    <<".", "p", "p", "t">>,
    <<".", "p", "p", "t", "x">>,
    <<".", "m", "p", "3">>,
    <<".", "m", "p", "4">>,
    <<".", "w", "a", "v">>,
    <<".", "a", "v", "i">>,
    <<".", "m", "o", "v">>,
    <<".", "s", "o">>,
    <<".", "d", "l", "l">>,
    <<".", "e", "x", "e">>,
    <<".", "b", "i", "n">> }

\* utils.IsBinaryFile(filename)
IsBinaryFile(filename) ==
    \/ ToLower(Ext(filename)) \in BinaryExtensions
    \/ Contains(filename, DotGitSlash)
    \/ HasPrefix(filename, DotGit)
    \/ filename = Dirc
    \/ Contains(filename, IndexLock)

\* A sniff that looks at every byte of the content.
ContainsBinaryDataAnywhere(bytes) ==
    \E i \in 1..Len(bytes) : bytes[i] \in {NulByte, HighByte}

\* utils.ContainsBinaryData(content): looks at the first min(len, 1000) bytes.
ContainsBinaryData(bytes) ==
    \E i \in 1..Min(Len(bytes), SniffLen) : bytes[i] \in {NulByte, HighByte}

\* utils.GetLanguageFromExtension(ext)
GetLanguageFromExtension(extension) ==
    LET ext == ToLower(extension)
    IN
      CASE ext = <<".", "g", "o">> -> "Go"
        [] ext = <<".", "j", "s">> -> "JavaScript"
        [] ext = <<".", "j", "s", "x">> -> "JavaScript"
        [] ext = <<".", "t", "s">> -> "TypeScript"
        [] ext = <<".", "t", "s", "x">> -> "TypeScript"
        [] ext = <<".", "p", "y">> -> "Python"
        [] ext = <<".", "j", "a", "v", "a">> -> "Java"
        [] ext = <<".", "c">> -> "C/C++"
        [] ext = <<".", "c", "p", "p">> -> "C/C++"
        [] ext = <<".", "h">> -> "C/C++"
        [] ext = <<".", "h", "p", "p">> -> "C/C++"
        [] ext = <<".", "r", "b">> -> "Ruby"
        [] ext = <<".", "p", "h", "p">> -> "PHP"
        [] ext = <<".", "c", "s">> -> "C#"
        [] ext = <<".", "h", "t", "m", "l">> -> "HTML"
        [] ext = <<".", "c", "s", "s">> -> "CSS"
        [] OTHER -> "Unknown"

\* processFile: the path of the file below the temporary clone directory,
\* cut after the first "/" that follows the last "/repo-".
RelPathOf(filePath) ==
    LET idx == LastIndex(filePath, TempDirMarker)
    IN  IF idx = -1 THEN filePath
        ELSE LET nextSlash == Index(SliceFrom(filePath, idx + 1), <<"/">>)
             IN  IF nextSlash = -1 THEN filePath
                 ELSE SliceFrom(filePath, idx + nextSlash + 2)

\* The file contents the walk can meet, by name.
DataClasses ==
    {"ascii", "empty", "nul", "high", "big", "exact", "lateBinary", "twoChunks", "emptyThenLong"}

\* The content that was not read.
Unread == "unread"

\* n bytes of ASCII text with a newline at every multiple of lineLen, and
\* none when lineLen is 0.
AsciiBytes(n, lineLen) ==
    SubSeq([i \in 1..n |-> IF lineLen > 0 /\ i % lineLen = 0 THEN NL ELSE "a"], 1, n)

Content ==
    [ascii |-> AsciiBytes(200, 20),
     empty |-> <<>>,
     nul |-> <<"a", NulByte, "a">>,
     high |-> <<HighByte, "a">>,
     big |-> AsciiBytes(MaxFileSize + 1, 0),
     exact |-> AsciiBytes(MaxFileSize, 0),
     lateBinary |-> AsciiBytes(SniffLen, 0) \o <<HighByte>>,
     twoChunks |-> AsciiBytes(IndexChunkSize + (IndexChunkSize \div 2), IndexChunkSize \div 2),
     emptyThenLong |-> <<NL>> \o AsciiBytes(IndexChunkSize + 1, 0)]

\* len(content) of each content, computed once.
FileSize ==
    [ascii |-> Len(Content.ascii), empty |-> Len(Content.empty), nul |-> Len(Content.nul),
     high |-> Len(Content.high), big |-> Len(Content.big), exact |-> Len(Content.exact),
     lateBinary |-> Len(Content.lateBinary), twoChunks |-> Len(Content.twoChunks),
     emptyThenLong |-> Len(Content.emptyThenLong)]

\* utils.ContainsBinaryData of each content, computed once.
HasBinaryData ==
    [ascii |-> ContainsBinaryData(Content.ascii), empty |-> ContainsBinaryData(Content.empty),
     nul |-> ContainsBinaryData(Content.nul), high |-> ContainsBinaryData(Content.high),
     big |-> ContainsBinaryData(Content.big), exact |-> ContainsBinaryData(Content.exact),
     lateBinary |-> ContainsBinaryData(Content.lateBinary),
     twoChunks |-> ContainsBinaryData(Content.twoChunks),
     emptyThenLong |-> ContainsBinaryData(Content.emptyThenLong)]

\* utils.SplitIntoChunks(content, 1000) of each content, computed once.
FileChunks ==
    [ascii |-> SplitIntoChunks(Content.ascii, IndexChunkSize),
     empty |-> SplitIntoChunks(Content.empty, IndexChunkSize),
     nul |-> SplitIntoChunks(Content.nul, IndexChunkSize),
     high |-> SplitIntoChunks(Content.high, IndexChunkSize),
     big |-> SplitIntoChunks(Content.big, IndexChunkSize),
     exact |-> SplitIntoChunks(Content.exact, IndexChunkSize),
     lateBinary |-> SplitIntoChunks(Content.lateBinary, IndexChunkSize),
     twoChunks |-> SplitIntoChunks(Content.twoChunks, IndexChunkSize),
     emptyThenLong |-> SplitIntoChunks(Content.emptyThenLong, IndexChunkSize)]

\* The embedding or store call that fails during one processFile, if any.
NoFault == [chunk |-> 0, op |-> "none"]

VendorFaults(data) ==
    {NoFault} \cup
    {[chunk |-> k, op |-> o] : k \in 1..Len(FileChunks[data]), o \in {"embed", "store"}}

\* One call to the embedding client or to the vector store for chunk i.
VendorCall(op, ok, i, pieces, meta) ==
    [op |-> op, ok |-> ok, chunk |-> i - 1, size |-> Len(pieces[i]),
     source |-> meta.source, data |-> meta.data, filePath |-> meta.filePath,
     repository |-> meta.repository, branch |-> meta.branch, language |-> meta.language]

\* The longest vector ID Store writes.
MaxVectorIdLen == 100

\* vectorId := fmt.Sprintf("%s-%s", chunk.Repository, chunk.FilePath), cut
\* to its first 100 bytes: the ID under which Store upserts the chunk.
VectorId(repository, filePath) ==
    LET id == repository \o <<"-">> \o filePath
    IN  SubSeq(id, 1, Min(Len(id), MaxVectorIdLen))

\* A chunk loop that goes on to the next chunk after a failed call and
\* returns the error at the end.
RECURSIVE ProcessChunksKeepGoing(_, _, _, _, _)
ProcessChunksKeepGoing(pieces, i, meta, fault, calls) ==
    IF i > Len(pieces)
    THEN [err |-> IF \E k \in 1..Len(calls) : ~calls[k].ok THEN "error" ELSE "nil",
          calls |-> calls]
    ELSE LET embedOk == ~(fault.chunk = i /\ fault.op = "embed")
             storeOk == ~(fault.chunk = i /\ fault.op = "store")
             embed == VendorCall("embed", embedOk, i, pieces, meta)
             store == VendorCall("store", storeOk, i, pieces, meta)
         IN  ProcessChunksKeepGoing(pieces, i + 1, meta, fault,
                 IF embedOk THEN calls \o <<embed, store>> ELSE Append(calls, embed))

\* A chunk loop that embeds every chunk of the file before it stores any.
ProcessChunksBatched(pieces, i, meta, fault, calls) ==
    [err |-> "nil",
     calls |-> calls \o [k \in 1..Len(pieces) |-> VendorCall("embed", TRUE, k, pieces, meta)]
                     \o [k \in 1..Len(pieces) |-> VendorCall("store", TRUE, k, pieces, meta)]]

\* The chunk loop of processFile: embed, then store, one chunk after the
\* other; the first failing call ends the file with an error.
RECURSIVE ProcessChunks(_, _, _, _, _)
ProcessChunks(pieces, i, meta, fault, calls) ==
    IF i > Len(pieces) THEN [err |-> "nil", calls |-> calls]
    ELSE LET embedOk == ~(fault.chunk = i /\ fault.op = "embed")
             storeOk == ~(fault.chunk = i /\ fault.op = "store")
             embed == VendorCall("embed", embedOk, i, pieces, meta)
             store == VendorCall("store", storeOk, i, pieces, meta)
         IN  IF ~embedOk THEN [err |-> "error", calls |-> Append(calls, embed)]
             ELSE IF ~storeOk THEN [err |-> "error", calls |-> calls \o <<embed, store>>]
             ELSE ProcessChunks(pieces, i + 1, meta, fault, calls \o <<embed, store>>)

Variants == {"service", "github"}

\* processFile(content, filePath, repoURL, branch) of the service indexer
\* and of the github-mcpserver indexer, which first sniffs the content.
ProcessFile(variant, data, filePath, url, branch, fault) ==
    IF variant = "github" /\ HasBinaryData[data]
    THEN [err |-> "error", calls |-> <<>>]
    ELSE IF DeriveRepository(url) = Panic
    THEN [err |-> Panic, calls |-> <<>>]
    ELSE ProcessChunks(FileChunks[data], 1,
                       [source |-> filePath, data |-> data,
                        filePath |-> RelPathOf(filePath),
                        repository |-> DeriveRepository(url),
                        branch |-> branch,
                        language |-> GetLanguageFromExtension(Ext(filePath))],
                       fault, <<>>)

\* What the walk callback returns once processFile has returned err.
AbortAfter(err) == err

ContinueAfter(err) == IF err = Panic THEN Panic ELSE "nil"

\* The callback processDirectory hands to filepath.Walk, for one entry:
\* what it returns, what it decided, what it counted and the vendor calls
\* it made.  accessErr is the error filepath.Walk passes in, readErr the
\* failure of ioutil.ReadFile, data the content read, fault the vendor call
\* that fails.
WalkFn(variant, url, branch, path, isDir, accessErr, readErr, data, fault) ==
    LET out(ret, decision, skipped, processed, read, failures, calls) ==
            [ret |-> ret, decision |-> decision,
             fileCount |-> IF accessErr THEN 0 ELSE 1,
             skippedCount |-> skipped, processedCount |-> processed,
             data |-> read, faults |-> failures, calls |-> calls]
        hidden == HasPrefix(Base(path), <<".">>)
        done == ProcessFile(variant, data, path, url, branch, fault)
        failed == IF \E k \in 1..Len(done.calls) : ~done.calls[k].ok THEN 1 ELSE 0
    IN  IF accessErr THEN out("error", "accessError", 0, 0, Unread, 1, <<>>)
        ELSE IF isDir THEN
            IF hidden THEN
                IF Contains(path, DotGit)
                THEN out("SkipDir", "gitDirectory", 1, 0, Unread, 0, <<>>)
                ELSE out("nil", "hiddenDirectory", 1, 0, Unread, 0, <<>>)
            ELSE out("nil", "directory", 0, 0, Unread, 0, <<>>)
        ELSE IF hidden THEN out("nil", "hiddenFile", 1, 0, Unread, 0, <<>>)
        ELSE IF IsBinaryFile(path) THEN out("nil", "binaryExtension", 1, 0, Unread, 0, <<>>)
        ELSE IF readErr THEN out("nil", "unreadable", 1, 0, Unread, 1, <<>>)
        ELSE IF FileSize[data] > MaxFileSize THEN out("nil", "tooLarge", 1, 0, data, 0, <<>>)
        ELSE IF HasBinaryData[data] THEN out("nil", "binaryData", 1, 0, data, 0, <<>>)
        ELSE IF done.err = Panic THEN out(Panic, "panicked", 0, 0, data, 0, done.calls)
        ELSE IF done.err # "nil"
        THEN out(ContinueAfter(done.err), "failed", 1, 0, data, failed, done.calls)
        ELSE out("nil", "processed", 0, 1, data, 0, done.calls)

\* A walk that goes on to the next entry whatever the callback returned.
NextEntryPastSkipDir(tree, pos, ret) == pos + 1

\* filepath.Walk: the entry visited after entry pos, given what the callback
\* returned for it; SkipDir for a directory passes over everything below it.
NextEntry(tree, pos, ret) ==
    IF ret # "SkipDir" THEN pos + 1
    ELSE LET below(j) == HasPrefix(tree[j].path, tree[pos].path \o <<"/">>)
             after == {j \in (pos + 1)..Len(tree) : ~below(j)}
         IN  IF after = {} THEN Len(tree) + 1
             ELSE CHOOSE j \in after : \A k \in after : j <= k

\* os.RemoveAll(tempDir), deferred by IndexRepository once the directory exists.
RemoveAllSkipped(dir) == dir

RemoveAll(dir) == [dir EXCEPT !.exists = FALSE]

-----------------------------------------------------------------------------
(* The state of one IndexRepository call.                                  *)

NoArgs == [variant |-> "none", repoURL |-> <<>>, branch |-> <<>>]
NoTempDir == [created |-> FALSE, exists |-> FALSE]
NoWalk == [pos |-> 0, fileCount |-> 0, skippedCount |-> 0, processedCount |-> 0]
NoResult == [err |-> Unset, exit |-> "none"]
NoIndexReq == [entry |-> "none", body |-> "none", repoUrl |-> Missing, branch |-> Missing]

\* params[key] of RepoIndexer.Execute: a nil map holds no key.
Param(req, value) == IF req.body = "nil" THEN Missing ELSE value

\* RepoIndexer.Execute: the request is refused.
ExecuteRejectsNonString(req) == Param(req, req.repoUrl).t # "string"

ExecuteRejects(req) ==
    LET ok == Param(req, req.repoUrl).t = "string"
        url == IF ok THEN req.repoUrl.v ELSE <<>>
    IN  ~ok \/ url = <<>>

\* RepoIndexer.Execute: branch, _ := params["branch"].(string), "main" when empty.
ExecuteBranch(req) ==
    LET given == Param(req, req.branch)
        branch == IF given.t = "string" THEN given.v ELSE <<>>
    IN  IF branch = <<>> THEN MainBranch ELSE branch

\* HandleRepositoryIndexing: the body does not decode, or RepoURL is empty.
HandlerRejects(req) == req.body = "malformed" \/ req.repoUrl.v = <<>>

\* HandleRepositoryIndexing: req.Branch, "main" when empty.
HandlerBranch(req) == IF req.branch.v = <<>> THEN MainBranch ELSE req.branch.v

IndexIdle ==
    /\ indexArgs = NoArgs
    /\ indexTree = <<>>
    /\ indexPc = "idle"
    /\ tempDir = NoTempDir
    /\ walk = NoWalk
    /\ visited = <<>>
    /\ vendorCalls = <<>>
    /\ indexResult = NoResult
    /\ faults = 0
    /\ indexReq = NoIndexReq
    /\ gitCalls = <<>>

-----------------------------------------------------------------------------
(* The state of a call on the vector store, of a direct call of            *)
(* processFile, and of the classification of one file.                     *)

NoPortCall == [op |-> "none", content |-> <<>>, query |-> <<>>, limit |-> 0, index |-> <<>>]
NoPortResult == [done |-> FALSE, err |-> Unset, failed |-> FALSE, chunks |-> <<>>]

PortIdle ==
    /\ portIn = NoPortCall
    /\ prodOut = NoPortResult
    /\ mockOut = NoPortResult

NoFileCall ==
    [variant |-> "none", data |-> Unread, filePath |-> <<>>, repoURL |-> <<>>,
     branch |-> <<>>, vendors |-> "none"]
NoFileResult == [err |-> Unset, calls |-> <<>>]

FileIdle ==
    /\ fileIn = NoFileCall
    /\ fileOut = NoFileResult
    /\ filePc = "idle"

NoClassCall == [path |-> <<>>, data |-> Unread]

ClassIdle ==
    /\ classIn = NoClassCall
    /\ classOut = Unset
    /\ classPc = "idle"

NoLines == <<>>

\* The stdio server before it is started.
StdioIdle ==
    /\ stdinChunk = NoLines
    /\ stdinPc = "idle"
    /\ backendCalls = {}
    /\ stdout = <<>>

\* No IndexRepository call is running and no temporary directory exists.
ConcIdle ==
    /\ tempDirs = <<>>
    /\ invocations = <<>>

-----------------------------------------------------------------------------
(* Specification of the chunker: one text, split once.                     *)

\* The texts of the chunker specification: every string of at most
\* MaxTextLen characters over a letter and the newline.
TextAlphabet == {"a", NL}

TextsOfLen(n) == [1..n -> TextAlphabet]

Texts == UNION {TextsOfLen(n) : n \in 0..MaxTextLen}

ChunkerIdle ==
    /\ content = <<>>
    /\ chunkSize = 0
    /\ chunks = <<>>
    /\ chunkerPc = "idle"

ChunkerStart ==
    /\ content \in Texts
    /\ chunkSize \in 1..MaxChunkSize
    /\ chunks = <<>>
    /\ chunkerPc = "ready"

\* One call of SplitIntoChunks(content, chunkSize).
CallSplitIntoChunks ==
    /\ chunkerPc = "ready"
    /\ chunks' = SplitIntoChunks(content, chunkSize)
    /\ chunkerPc' = "done"
    /\ UNCHANGED <<content, chunkSize, deriveVars, rankVars, searchVars, indexVars,
                   portVars, fileVars, classVars, concVars, stdioVars>>

ChunkerInit ==
    ChunkerStart /\ DeriveIdle /\ RankIdle /\ SearchIdle /\ IndexIdle
    /\ PortIdle /\ FileIdle /\ ClassIdle /\ ConcIdle /\ StdioIdle

ChunkerNext == CallSplitIntoChunks

SpecChunker == ChunkerInit /\ [][ChunkerNext]_vars

\* C1: joining the chunks of SplitIntoChunks(T, N) with "\n" gives back T
\* exactly, for every text T and every chunk size N >= 1.
ChunkerRoundTrip ==
    chunkerPc = "done" => Join(chunks, NL) = content

\* C2: every chunk of SplitIntoChunks(T, N) has at most N characters, the
\* newlines inside it included, unless the chunk is one single source line
\* that is itself longer than N.
ChunkerBoundary ==
    chunkerPc = "done" =>
        \A k \in 1..Len(chunks) :
            \/ Len(chunks[k]) <= chunkSize
            \/ /\ ~Contains(chunks[k], <<NL>>)
               /\ \E j \in 1..Len(Split(content, NL)) : Split(content, NL)[j] = chunks[k]

\* C3: SplitIntoChunks applied to the empty string returns zero chunks, for
\* every chunk size.
ChunkerEmptyGivesNoChunk ==
    (chunkerPc = "done" /\ content = <<>>) => chunks = <<>>

-----------------------------------------------------------------------------
(* Specification of the identity derivation: one URL U, derived once as it *)
(* is and once with ".git" appended.                                       *)

ExampleUrl == <<"h", "t", "t", "p", "s", ":", "/", "/", "g", "i", "t", "h", "u", "b", ".", "c", "o", "m", "/", "a", "c", "m", "e", "/", "w", "i", "d", "g", "e", "t", "s">>

ExampleRepository == <<"a", "c", "m", "e", "/", "w", "i", "d", "g", "e", "t", "s">>

UrlTokens == {<<"a">>, <<"/">>, GitSuffix}

RECURSIVE Flatten(_)
Flatten(seqs) == IF Len(seqs) = 0 THEN <<>> ELSE seqs[1] \o Flatten(Tail(seqs))

\* Every concatenation of at most MaxUrlTokens tokens, and the spec's example.
Urls ==
    {ExampleUrl} \cup
    UNION {{Flatten(ts) : ts \in [1..n -> UrlTokens]} : n \in 0..MaxUrlTokens}

DeriveStart ==
    /\ repoURL \in Urls
    /\ repoPlain = Unset
    /\ repoGit = Unset

\* processFile derives the repository of U.
DerivePlain ==
    /\ repoURL \in Urls
    /\ repoPlain = Unset
    /\ repoPlain' = DeriveRepository(repoURL)
    /\ UNCHANGED <<repoURL, repoGit, chunkerVars, rankVars, searchVars, indexVars,
                   portVars, fileVars, classVars, concVars, stdioVars>>

\* processFile derives the repository of U + ".git".
DeriveGit ==
    /\ repoURL \in Urls
    /\ repoGit = Unset
    /\ repoGit' = DeriveRepository(repoURL \o GitSuffix)
    /\ UNCHANGED <<repoURL, repoPlain, chunkerVars, rankVars, searchVars, indexVars,
                   portVars, fileVars, classVars, concVars, stdioVars>>

DeriveInit ==
    DeriveStart /\ ChunkerIdle /\ RankIdle /\ SearchIdle /\ IndexIdle
    /\ PortIdle /\ FileIdle /\ ClassIdle /\ ConcIdle /\ StdioIdle

DeriveNext == DerivePlain \/ DeriveGit

SpecDerive == DeriveInit /\ [][DeriveNext]_vars

DeriveDone == repoPlain # Unset /\ repoGit # Unset

\* U has the form .../owner/name: at least an owner and a name piece.
HasOwnerAndName(url) == Len(Split(url, "/")) >= 2

LastPiece(url) == Split(url, "/")[Len(Split(url, "/"))]

\* C10 as stated: derive(U + ".git") = derive(U) for every URL U of the form
\* .../owner/name.
DeriveGitSuffixAgnostic ==
    (DeriveDone /\ HasOwnerAndName(repoURL)) => repoGit = repoPlain

\* C10 as amended: derive(U + ".git") = derive(U) for every URL U of the form
\* .../owner/name whose name does not itself end in ".git", and both are
\* "acme/widgets" for https://github.com/acme/widgets.
DeriveGitSuffixAgnosticUnlessGitName ==
    /\ (DeriveDone /\ HasOwnerAndName(repoURL) /\ ~HasSuffix(LastPiece(repoURL), GitSuffix))
           => (repoGit = repoPlain /\ repoPlain # Panic)
    /\ (DeriveDone /\ repoURL = ExampleUrl)
           => (repoPlain = ExampleRepository /\ repoGit = ExampleRepository)

\* C10 witness: the example URL has been derived with and without ".git".
DeriveExampleDone ==
    /\ DeriveDone
    /\ repoURL = ExampleUrl
    /\ repoGit = ExampleRepository

-----------------------------------------------------------------------------
(* Specification of the ranking: one query response, parsed by Search.     *)

PathFoo == <<"s", "r", "c", "/", "f", "o", "o", ".", "t", "x", "t">>
PathMain == <<"m", "a", "i", "n", ".", "g", "o">>
PathHandlersX == <<"h", "a", "n", "d", "l", "e", "r", "s", "/", "x", ".", "g", "o">>
PathHandlersMain == <<"h", "a", "n", "d", "l", "e", "r", "s", "/", "m", "a", "i", "n", ".", "g", "o">>
PathDocs == <<"d", "o", "c", "s", "/", "a", ".", "m", "d">>

LongContent == <<"p", "a", "c", "k", "a", "g", "e", " ", "m", "a", "i", "n">>

Metadata(path, text) ==
    [content |-> text, filePath |-> path, repository |-> ExampleRepository,
     branch |-> <<"m", "a", "i", "n">>, language |-> <<"G", "o">>]

OkMatch(path, text) == [kind |-> "ok", metadata |-> Metadata(path, text)]

BadMatch(kind) == [kind |-> kind, metadata |-> Metadata(<<>>, <<>>)]

RankPaths == {PathFoo, PathMain, PathHandlersX, PathHandlersMain, PathDocs}

RankUniverse ==
    {OkMatch(p, LongContent) : p \in RankPaths} \cup
    {BadMatch(k) : k \in MatchKinds \ {"ok"}}

MatchLists == UNION {[1..n -> RankUniverse] : n \in 0..MaxMatches}

RankStart ==
    /\ rankMatches \in MatchLists
    /\ rankResults = <<>>
    /\ rankPc = "ready"

\* Search receives the query response and returns the ranked chunks.
SearchParsesResponse ==
    /\ rankPc = "ready"
    /\ rankResults' = RankResults(rankMatches)
    /\ rankPc' = "done"
    /\ UNCHANGED <<rankMatches, chunkerVars, deriveVars, searchVars, indexVars,
                   portVars, fileVars, classVars, concVars, stdioVars>>

\* Search fails before the response is parsed: no index connection, no
\* filter, or a failed query.
SearchFailsBeforeParse ==
    /\ rankPc = "ready"
    /\ rankPc' = "failed"
    /\ UNCHANGED <<rankMatches, rankResults, chunkerVars, deriveVars, searchVars, indexVars,
                   portVars, fileVars, classVars, concVars, stdioVars>>

RankInit ==
    RankStart /\ ChunkerIdle /\ DeriveIdle /\ SearchIdle /\ IndexIdle
    /\ PortIdle /\ FileIdle /\ ClassIdle /\ ConcIdle /\ StdioIdle

RankNext == SearchParsesResponse \/ SearchFailsBeforeParse

SpecRank == RankInit /\ [][RankNext]_vars

\* A path is important when it contains one of the markers.
IsImportantPath(path) ==
    \E j \in 1..Len(ImportantFiles) : Contains(path, ImportantFiles[j])

ImportantChunk(chunk) == IsImportantPath(chunk.FilePath)

OtherChunk(chunk) == ~IsImportantPath(chunk.FilePath)

\* The valid matches of the response as chunks, in the store's order.
ValidChunks(matches) ==
    LET valid == SelectSeq(matches, LAMBDA m : m.kind = "ok")
    IN  [k \in 1..Len(valid) |-> ChunkOfMatch(valid[k])]

ExampleMatches ==
    <<OkMatch(PathFoo, LongContent), OkMatch(PathMain, LongContent),
      OkMatch(PathHandlersX, LongContent)>>

\* C4: Search outputs exactly the valid matches, each once, the ones whose
\* path contains an important marker first and the others after them, each
\* group in the order of the vector store; [src/foo.txt, main.go,
\* handlers/x.go] becomes [main.go, handlers/x.go, src/foo.txt].
RankingIsStablePartition ==
    rankPc = "done" =>
        /\ rankResults = SelectSeq(ValidChunks(rankMatches), ImportantChunk)
                             \o SelectSeq(ValidChunks(rankMatches), OtherChunk)
        /\ Len(rankResults) = Len(ValidChunks(rankMatches))
        /\ \A a, b \in 1..Len(rankResults) :
               (a < b /\ ImportantChunk(rankResults[b])) => ImportantChunk(rankResults[a])
        /\ rankMatches = ExampleMatches =>
               [k \in 1..3 |-> rankResults[k].FilePath] = <<PathMain, PathHandlersX, PathFoo>>

\* C4 witness: a response holding a path with two markers, an unmarked path
\* before it and a nil match has been ranked.
RankedTwoMarkerPath ==
    /\ rankPc = "done"
    /\ Len(rankMatches) = 3
    /\ rankMatches[1] = OkMatch(PathFoo, LongContent)
    /\ rankMatches[2] = BadMatch("nil")
    /\ rankMatches[3] = OkMatch(PathHandlersMain, LongContent)
    /\ Len(rankResults) = 2
    /\ rankResults[1].FilePath = PathHandlersMain

\* How many times the value x occurs in the sequence s.
Occurrences(s, x) == Cardinality({k \in 1..Len(s) : s[k] = x})

InvalidMatches(matches) == {k \in 1..Len(matches) : matches[k].kind # "ok"}

\* C23: a match that is nil, has a nil vector or has nil metadata is
\* dropped and nothing else is: Search returns, without an error, every
\* other match of the response as many times as the response holds it.
InvalidMatchesDroppedSilently ==
    rankPc = "done" =>
        /\ Len(rankResults) = Len(rankMatches) - Cardinality(InvalidMatches(rankMatches))
        /\ \A k \in 1..Len(rankMatches) :
               rankMatches[k].kind = "ok" =>
                   Occurrences(rankResults, ChunkOfMatch(rankMatches[k]))
                       = Occurrences(rankMatches, rankMatches[k])

\* A response whose first match has no vector, whose second has no
\* metadata and whose third is valid has been parsed: the third is returned.
ValidMatchSurvivedInvalidOnes ==
    /\ rankPc = "done"
    /\ rankMatches = <<BadMatch("nilVector"), BadMatch("nilMetadata"),
                       OkMatch(PathDocs, LongContent)>>
    /\ rankResults = <<ChunkOfMatch(OkMatch(PathDocs, LongContent))>>

-----------------------------------------------------------------------------
(* Specification of the search entry points: one request against an index. *)

PathGitConfig == <<".", "g", "i", "t", "/", "c", "o", "n", "f", "i", "g">>
PathVarFolders == <<"v", "a", "r", "/", "f", "o", "l", "d", "e", "r", "s", "/", "t", ".", "g", "o">>

PaddedShortContent == <<" ", " ", " ", "x", " ", "=", " ", "1", " ", " ", " ">>

QueryText == <<"q">>
RepositoryText == <<"a", "c", "m", "e", "/", "w">>
DevBranch == <<"d", "e", "v">>

\* The vectors of the index, most relevant first, repeated as often as the
\* index is long.
IndexPattern ==
    <<OkMatch(PathFoo, LongContent),
      OkMatch(PathMain, LongContent),
      BadMatch("nilMetadata"),
      OkMatch(PathGitConfig, LongContent),
      OkMatch(PathHandlersX, PaddedShortContent),
      OkMatch(PathDocs, LongContent),
      OkMatch(PathVarFolders, LongContent)>>

IndexOf(n, offset) ==
    [k \in 1..n |-> IndexPattern[((k - 1 + offset) % Len(IndexPattern)) + 1]]

Indexes == {IndexOf(n, o) : n \in 0..MaxIndexLen, o \in 0..(Len(IndexPattern) - 1)}

SearchStart ==
    /\ searchIndex \in Indexes
    /\ searchEntry = "none"
    /\ searchReq = NoRequest
    /\ searchOut = NoOutput
    /\ searchPc = "ready"
    /\ searchFailAt = "none"

\* The values a caller can give.
QueryRepositoryPairs ==
    {<<StrVal(QueryText), StrVal(RepositoryText)>>,
     <<StrVal(<<>>), StrVal(RepositoryText)>>,
     <<StrVal(QueryText), StrVal(<<>>)>>}

MapQueryRepositoryPairs ==
    QueryRepositoryPairs \cup
    {<<Missing, StrVal(RepositoryText)>>, <<StrVal(QueryText), Missing>>}

BranchValues == {StrVal(<<>>), StrVal(DevBranch)}

LimitNumbers == {-1, 0, 2, 11}

StructLimits == {IntVal(n) : n \in LimitNumbers}

MapLimits == {Missing, IntVal(2), FloatVal(2), FloatVal(11), IntVal(0), FloatVal(-1)}

StructRequests ==
    {[action |-> "search", query |-> qr[1], repository |-> qr[2], branch |-> b, limit |-> l] :
        qr \in QueryRepositoryPairs, b \in BranchValues, l \in StructLimits}

MapRequests ==
    {[action |-> "search", query |-> qr[1], repository |-> qr[2], branch |-> b, limit |-> l] :
        qr \in MapQueryRepositoryPairs, b \in BranchValues \cup {Missing}, l \in MapLimits}

CursorRequests ==
    MapRequests \cup
    {[action |-> a, query |-> Missing, repository |-> Missing, branch |-> Missing,
      limit |-> Missing] : a \in {"connect", "other"}}

\* Requests that carry no limit and no branch of their own.
ChatRequests ==
    {[action |-> "search", query |-> qr[1], repository |-> qr[2], branch |-> Missing,
      limit |-> Missing] : qr \in QueryRepositoryPairs}

\* Requests that carry a branch and no limit.
BranchRequests ==
    {[action |-> "search", query |-> qr[1], repository |-> qr[2], branch |-> b,
      limit |-> Missing] : qr \in QueryRepositoryPairs, b \in BranchValues}

Finish(entry, req, failAt, out) ==
    /\ searchPc = "ready"
    /\ searchEntry' = entry
    /\ searchReq' = req
    /\ searchFailAt' = failAt
    /\ searchOut' = out
    /\ searchPc' = "done"
    /\ UNCHANGED <<searchIndex, chunkerVars, deriveVars, rankVars, indexVars,
                   portVars, fileVars, classVars, concVars, stdioVars>>

CallServiceSearch ==
    \E req \in StructRequests, failAt \in FailPoints \ {"summary"} :
        Finish("VectorSearchService.Search", req, failAt,
               ServiceSearch(searchIndex, req.query.v, req.repository.v, req.branch.v,
                             req.limit.v, failAt))

CallServiceSearchWithSummary ==
    \E req \in StructRequests, failAt \in FailPoints :
        Finish("VectorSearchService.SearchWithSummary", req, failAt,
               ServiceSearchWithSummary(searchIndex, req.query.v, req.repository.v,
                                        req.branch.v, req.limit.v, failAt))

CallHandleCursorAction ==
    \E req \in CursorRequests, failAt \in FailPoints \ {"summary"} :
        Finish("MCPServerService.HandleCursorAction", req, failAt,
               CursorAction(searchIndex, req, failAt))

CallHandleChat ==
    \E req \in ChatRequests, failAt \in FailPoints \ {"summary"} :
        Finish("MCPServerService.HandleChat", req, failAt,
               ServiceChat(searchIndex, req.query.v, req.repository.v, failAt))

CallToolExecute ==
    \E req \in MapRequests, failAt \in FailPoints \ {"summary"} :
        Finish("VectorSearchTool.Execute", req, failAt, ToolExecute(searchIndex, req, failAt))

CallSearcherSearch ==
    \E req \in BranchRequests, failAt \in FailPoints :
        Finish("VectorSearcher.Search", req, failAt,
               SearcherSearch(searchIndex, req.query.v, req.repository.v, req.branch.v,
                              failAt))

CallToolHandleVectorSearch ==
    \E req \in BranchRequests, failAt \in FailPoints :
        Finish("MCPServer.HandleVectorSearch", req, failAt,
               ToolHandleVectorSearch(searchIndex, req.query.v, req.repository.v,
                                      req.branch.v, failAt))

CallServiceHandleVectorSearch ==
    \E req \in BranchRequests, failAt \in FailPoints :
        Finish("VectorSearchHandler.HandleVectorSearch", req, failAt,
               ServiceHandleVectorSearch(searchIndex, req.query.v, req.repository.v,
                                         req.branch.v, failAt))

SearchInit ==
    SearchStart /\ ChunkerIdle /\ DeriveIdle /\ RankIdle /\ IndexIdle
    /\ PortIdle /\ FileIdle /\ ClassIdle /\ ConcIdle /\ StdioIdle

SearchNext ==
    \/ CallServiceSearch
    \/ CallServiceSearchWithSummary
    \/ CallHandleCursorAction
    \/ CallHandleChat
    \/ CallToolExecute
    \/ CallSearcherSearch
    \/ CallToolHandleVectorSearch
    \/ CallServiceHandleVectorSearch

SpecSearch == SearchInit /\ [][SearchNext]_vars

\* The limit the caller asked for: the number given as "limit", whatever
\* its Go type, and 10 when none or a non-positive one was given.
AskedLimit(req) ==
    IF req.limit.t # "missing" /\ req.limit.v > 0 THEN req.limit.v ELSE DefaultLimit

LimitedEntries ==
    {"VectorSearchService.Search", "MCPServerService.HandleCursorAction",
     "MCPServerService.HandleChat", "VectorSearchTool.Execute"}

\* C5: for every search entry point and every request, the number of chunks
\* returned never exceeds the limit the caller asked for, and is at most 10
\* when the caller gave no limit or a non-positive one.
ReturnedChunksWithinLimit ==
    (searchPc = "done" /\ searchEntry \in LimitedEntries)
        => Len(searchOut.chunks) <= AskedLimit(searchReq)

\* The entry points that send a search filter built from the caller's branch.
BranchEntries ==
    {"VectorSearchService.Search", "VectorSearchTool.Execute",
     "MCPServerService.HandleCursorAction"}

\* The caller gave no branch, or an empty one.
NoBranchGiven(req) == req.branch.t # "string" \/ req.branch.v = <<>>

\* C12: every search filter sent to the vector store carries a non-empty
\* branch, and that branch is "main" whenever the caller gave no branch or
\* an empty one.
SearchFilterCarriesBranch ==
    (searchPc = "done" /\ searchEntry \in BranchEntries /\ searchOut.filter # <<>>) =>
        /\ searchOut.filter[2] # <<>>
        /\ NoBranchGiven(searchReq) => searchOut.filter[2] = MainBranch

\* The entry points of a search-with-summary request.
SummaryRequestEntries ==
    {"VectorSearchService.SearchWithSummary", "VectorSearcher.Search",
     "MCPServer.HandleVectorSearch", "VectorSearchHandler.HandleVectorSearch"}

\* The vendor calls of a search-with-summary request, in order.
SummaryCallOrder == <<"embed", "search", "summary">>

\* C13: in a search-with-summary request the vendor calls are the query
\* embedding, the vector search and the summary, in this order and each at
\* most once; when one of them fails it is the last call made, and the
\* request ends with an error and returns nothing.
SummaryCallsInOrderNoRetry ==
    (searchPc = "done" /\ searchEntry \in SummaryRequestEntries) =>
        /\ Len(searchOut.calls) <= Len(SummaryCallOrder)
        /\ searchOut.calls = SubSeq(SummaryCallOrder, 1, Len(searchOut.calls))
        /\ \A k \in 1..Len(searchOut.calls) :
            searchOut.calls[k] = searchFailAt =>
                /\ k = Len(searchOut.calls)
                /\ searchOut.status = "error"
                /\ searchOut.chunks = <<>>

\* SearchWithSummary has ended with an error after the vector search
\* failed, without a summary call.
SummarySkippedAfterSearchFailure ==
    /\ searchPc = "done"
    /\ searchEntry = "VectorSearchService.SearchWithSummary"
    /\ searchFailAt = "search"
    /\ searchOut.calls = <<"embed", "search">>
    /\ searchOut.status = "error"

\* The search request names no query or no repository: the field is
\* missing, not a string, or empty.
InvalidSearchRequest(req) ==
    /\ req.action = "search"
    /\ \/ req.query.t # "string"
       \/ req.query.v = <<>>
       \/ req.repository.t # "string"
       \/ req.repository.v = <<>>

\* C14: every search entry point answers a request whose query or
\* repository is missing or empty with an error, and makes no embedding,
\* vector-store or summary call for it.
InvalidSearchRejectedBeforeCalls ==
    (searchPc = "done" /\ InvalidSearchRequest(searchReq)) =>
        /\ searchOut.status = "error"
        /\ searchOut.calls = <<>>

SummaryEntries ==
    {"VectorSearcher.Search", "VectorSearchService.SearchWithSummary",
     "MCPServer.HandleVectorSearch"}

\* The second-tier filter as the claim states it: no version-control path,
\* no content shorter than 10 characters once trimmed.
SurvivesSummaryFilter(chunk) ==
    /\ ~Contains(chunk.FilePath, GitDirMarker)
    /\ ~HasPrefix(chunk.FilePath, GitPrefix)
    /\ Len(TrimSpace(chunk.Content)) >= MinContentLen

\* The ranked chunks the vector store returned to the entry point: the
\* result of its Search for the limit the entry point passed.
RankedForSummary == StoreSearch(searchIndex, searchOut.filter[3])

\* C6: in every search-with-summary request at most 3 chunks are forwarded
\* to the summary request, and they are the first 3 of the ranked results
\* that survive the version-control-path and shorter-than-10 filter.
SummaryGetsTopThreeFiltered ==
    (searchPc = "done" /\ searchEntry \in SummaryEntries /\ searchOut.summarized)
        => /\ Len(searchOut.forwarded) <= TopResults
           /\ searchOut.forwarded =
                  SubSeq(SelectSeq(RankedForSummary, SurvivesSummaryFilter), 1,
                         Min(TopResults,
                             Len(SelectSeq(RankedForSummary, SurvivesSummaryFilter))))

-----------------------------------------------------------------------------
(* Specification of the ingestion: one IndexRepository call on one         *)
(* repository, with at most MaxFaults failures of the file system, of git  *)
(* and of the embedding and store calls.                                   *)

\* The directory ioutil.TempDir("", "repo-") creates.
TempDirName == <<"/", "t", "m", "p", "/", "r", "e", "p", "o", "-", "4", "2">>

ExampleGitUrl == ExampleUrl \o GitSuffix
NoSlashUrl == <<"w", "i", "d", "g", "e", "t", "s">>
MasterBranch == <<"m", "a", "s", "t", "e", "r">>

\* The entries a cloned repository can hold, in the lexical order in which
\* filepath.Walk visits them, grouped so that a file comes with its directory.
Groups == {"git", "gitignore", "vscode", "main", "photo", "src"}

RepoEntries == <<
    [rel |-> <<".", "g", "i", "t">>, dir |-> TRUE, group |-> "git", classes |-> {}],
    [rel |-> <<".", "g", "i", "t", "/", "H", "E", "A", "D">>, dir |-> FALSE, group |-> "git", classes |-> {"ascii"}],
    [rel |-> <<".", "g", "i", "t", "i", "g", "n", "o", "r", "e">>, dir |-> FALSE, group |-> "gitignore", classes |-> {"ascii"}],
    [rel |-> <<".", "v", "s", "c", "o", "d", "e">>, dir |-> TRUE, group |-> "vscode", classes |-> {}],
    [rel |-> <<".", "v", "s", "c", "o", "d", "e", "/", "a", "p", "p", ".", "g", "o">>, dir |-> FALSE, group |-> "vscode", classes |-> {"ascii"}],
    [rel |-> <<"m", "a", "i", "n", ".", "g", "o">>, dir |-> FALSE, group |-> "main", classes |-> DataClasses],
    [rel |-> <<"p", "h", "o", "t", "o", ".", "p", "n", "g">>, dir |-> FALSE, group |-> "photo", classes |-> {"ascii"}],
    [rel |-> <<"r", "e", "p", "o", "-", "n", "o", "t", "e", "s", ".", "t", "x", "t">>, dir |-> FALSE, group |-> "repo", classes |-> {"ascii"}],
    [rel |-> <<"r", "e", "p", "o", "-", "x">>, dir |-> TRUE, group |-> "repo", classes |-> {}],
    [rel |-> <<"r", "e", "p", "o", "-", "x", "/", "a", ".", "g", "o">>, dir |-> FALSE, group |-> "repo", classes |-> {"ascii"}],
    [rel |-> <<"s", "r", "c">>, dir |-> TRUE, group |-> "src", classes |-> {}],
    [rel |-> <<"s", "r", "c", "/", "u", "t", "i", "l", ".", "g", "o">>, dir |-> FALSE, group |-> "src", classes |-> {"ascii", "high"}] >>

PathOf(rel) == TempDirName \o <<"/">> \o rel

\* The clone of a repository that holds the given groups: the temporary
\* directory itself, then its entries.
TreeOf(groups) ==
    LET held(e) == e.group \in groups
        kept == SelectSeq(RepoEntries, held)
    IN  <<[path |-> TempDirName, dir |-> TRUE]>> \o
        [k \in 1..Len(kept) |-> [path |-> PathOf(kept[k].rel), dir |-> kept[k].dir]]

\* The contents the file at path can turn out to hold when it is read.
DataChoices(path) ==
    UNION {RepoEntries[k].classes : k \in {j \in 1..Len(RepoEntries) : PathOf(RepoEntries[j].rel) = path}}
    \cup {"ascii"}

\* The example URL as a browser shows it, with a "/" at its end.
TrailingSlashUrl == ExampleUrl \o <<"/">>

IndexUrls == {ExampleGitUrl, NoSlashUrl, TrailingSlashUrl}
IndexBranches == {<<>>, MainBranch, MasterBranch, DevBranch}

\* Every repository with the usual arguments, the repositories that hold
\* names beginning with "repo-" (the group "repo"), and every combination of
\* the arguments on one repository.
IndexCases ==
    {[groups |-> g, variant |-> "service", repoURL |-> ExampleGitUrl, branch |-> MainBranch] :
        g \in SUBSET Groups}
    \cup
    {[groups |-> g, variant |-> v, repoURL |-> ExampleGitUrl, branch |-> MainBranch] :
        g \in {{"repo"}, {"repo", "src"}}, v \in Variants}
    \cup
    {[groups |-> {"main", "src"}, variant |-> v, repoURL |-> u, branch |-> b] :
        v \in Variants, u \in IndexUrls, b \in IndexBranches}

\* A value that is not a string.
NotAString == IntVal(7)

\* The params maps RepoIndexer.Execute can be called with, nil included.
ExecuteRequests ==
    {[entry |-> "RepoIndexer.Execute", body |-> "map", repoUrl |-> u, branch |-> b] :
        u \in {Missing, NotAString, StrVal(<<>>), StrVal(ExampleGitUrl)},
        b \in {Missing, NotAString, StrVal(<<>>), StrVal(DevBranch)}}
    \cup
    {[entry |-> "RepoIndexer.Execute", body |-> "nil", repoUrl |-> Missing, branch |-> Missing]}

\* The request bodies HandleRepositoryIndexing can receive, decoded into
\* models.IndexRepositoryRequest; a body that does not decode is malformed.
HandlerRequests ==
    {[entry |-> "RepoIndexerHandler.HandleRepositoryIndexing", body |-> "json",
      repoUrl |-> u, branch |-> b] :
        u \in {StrVal(<<>>), StrVal(ExampleGitUrl)},
        b \in {StrVal(<<>>), StrVal(DevBranch)}}
    \cup
    {[entry |-> "RepoIndexerHandler.HandleRepositoryIndexing", body |-> "malformed",
      repoUrl |-> StrVal(<<>>), branch |-> StrVal(<<>>)]}

\* The repository the requests of the entry points are made for.
RequestGroups == {"src"}

\* Either IndexRepository is called as it is, or one of the entry points
\* that call it has received a request.
IndexStart ==
    /\ \/ \E c \in IndexCases :
            /\ indexArgs = [variant |-> c.variant, repoURL |-> c.repoURL, branch |-> c.branch]
            /\ indexTree = TreeOf(c.groups)
            /\ indexPc = "ready"
            /\ indexReq = [entry |-> "IndexRepository", body |-> "args",
                           repoUrl |-> StrVal(c.repoURL), branch |-> StrVal(c.branch)]
       \/ \E req \in ExecuteRequests \cup HandlerRequests :
            /\ indexArgs = NoArgs
            /\ indexTree = TreeOf(RequestGroups)
            /\ indexPc = "request"
            /\ indexReq = req
    /\ tempDir = NoTempDir
    /\ walk = NoWalk
    /\ visited = <<>>
    /\ vendorCalls = <<>>
    /\ indexResult = NoResult
    /\ faults = 0
    /\ gitCalls = <<>>

\* The entry point refuses the request, or calls IndexRepository.
Enter(variant, rejects, branch) ==
    /\ IF rejects
       THEN /\ indexPc' = "returned"
            /\ indexResult' = [err |-> "error", exit |-> "validation"]
            /\ UNCHANGED indexArgs
       ELSE /\ indexPc' = "ready"
            /\ indexArgs' = [variant |-> variant, repoURL |-> indexReq.repoUrl.v,
                             branch |-> branch]
            /\ UNCHANGED indexResult
    /\ UNCHANGED <<indexTree, tempDir, walk, visited, vendorCalls, faults, indexReq, gitCalls>>
    /\ UNCHANGED <<chunkerVars, deriveVars, rankVars, searchVars, portVars, fileVars, classVars,
                   concVars, stdioVars>>

\* RepoIndexer.Execute, up to its call of IndexRepository.
Execute ==
    /\ indexPc = "request"
    /\ indexReq.entry = "RepoIndexer.Execute"
    /\ Enter("github", ExecuteRejects(indexReq), ExecuteBranch(indexReq))

\* RepoIndexerHandler.HandleRepositoryIndexing, up to its call of IndexRepository.
HandleRepositoryIndexing ==
    /\ indexPc = "request"
    /\ indexReq.entry = "RepoIndexerHandler.HandleRepositoryIndexing"
    /\ Enter("service", HandlerRejects(indexReq), HandlerBranch(indexReq))

\* IndexRepository returns err: the deferred os.RemoveAll(tempDir) runs.
ReturnDeferred(err, exit) ==
    /\ indexPc' = "returned"
    /\ indexResult' = [err |-> err, exit |-> exit]
    /\ tempDir' = RemoveAll(tempDir)

\* A checkout for every branch that is named.
NeedsCheckoutWhenNamed(branch) == branch # <<>>

\* The checkout that follows the clone for a branch other than the default ones.
NeedsCheckout(branch) == branch \notin {<<>>, MainBranch, MasterBranch}

\* IndexRepository, up to ioutil.TempDir: a failure returns before the
\* removal of the directory is deferred.
CreateTempDir ==
    /\ indexPc = "ready"
    /\ \E ok \in BOOLEAN :
        /\ ok \/ faults < MaxFaults
        /\ IF ok
           THEN /\ tempDir' = [created |-> TRUE, exists |-> TRUE]
                /\ indexPc' = "cloning"
                /\ UNCHANGED <<indexResult, faults>>
           ELSE /\ indexPc' = "returned"
                /\ indexResult' = [err |-> "error", exit |-> "tempdir"]
                /\ faults' = faults + 1
                /\ UNCHANGED tempDir
    /\ UNCHANGED <<indexArgs, indexTree, walk, visited, vendorCalls, indexReq, gitCalls>>
    /\ UNCHANGED <<chunkerVars, deriveVars, rankVars, searchVars, portVars, fileVars, classVars,
                   concVars, stdioVars>>

\* git clone repoURL tempDir.
CloneRepository ==
    /\ indexPc = "cloning"
    /\ \E ok \in BOOLEAN :
        /\ ok \/ faults < MaxFaults
        /\ gitCalls' = Append(gitCalls, [op |-> "clone", ok |-> ok])
        /\ IF ok
           THEN /\ indexPc' = IF NeedsCheckout(indexArgs.branch) THEN "checkout" ELSE "walking"
                /\ walk' = [walk EXCEPT !.pos = 1]
                /\ UNCHANGED <<tempDir, indexResult, faults>>
           ELSE /\ ReturnDeferred("error", "clone")
                /\ faults' = faults + 1
                /\ UNCHANGED walk
    /\ UNCHANGED <<indexArgs, indexTree, visited, vendorCalls, indexReq>>
    /\ UNCHANGED <<chunkerVars, deriveVars, rankVars, searchVars, portVars, fileVars, classVars,
                   concVars, stdioVars>>

\* git checkout branch, in the clone.
CheckoutBranch ==
    /\ indexPc = "checkout"
    /\ \E ok \in BOOLEAN :
        /\ ok \/ faults < MaxFaults
        /\ gitCalls' = Append(gitCalls, [op |-> "checkout", ok |-> ok])
        /\ IF ok
           THEN /\ indexPc' = "walking"
                /\ UNCHANGED <<tempDir, indexResult, faults>>
           ELSE /\ ReturnDeferred("error", "checkout")
                /\ faults' = faults + 1
    /\ UNCHANGED <<indexArgs, indexTree, walk, visited, vendorCalls, indexReq>>
    /\ UNCHANGED <<chunkerVars, deriveVars, rankVars, searchVars, portVars, fileVars, classVars,
                   concVars, stdioVars>>

\* processDirectory: filepath.Walk calls the callback for the next entry;
\* after the last entry, or as soon as the callback returns an error,
\* processDirectory and IndexRepository return.
VisitEntry ==
    /\ indexPc = "walking"
    /\ \E accessErr \in BOOLEAN, readErr \in BOOLEAN,
          data \in DataChoices(indexTree[walk.pos].path) :
        \E fault \in VendorFaults(data) :
            LET entry == indexTree[walk.pos]
                r == WalkFn(indexArgs.variant, indexArgs.repoURL, indexArgs.branch,
                            entry.path, entry.dir, accessErr, readErr, data, fault)
                next == NextEntry(indexTree, walk.pos, r.ret)
            IN  /\ faults + r.faults <= MaxFaults
                /\ faults' = faults + r.faults
                /\ walk' = [pos |-> next,
                            fileCount |-> walk.fileCount + r.fileCount,
                            skippedCount |-> walk.skippedCount + r.skippedCount,
                            processedCount |-> walk.processedCount + r.processedCount]
                /\ visited' = Append(visited,
                                     [path |-> entry.path, decision |-> r.decision, data |-> r.data])
                /\ vendorCalls' = vendorCalls \o r.calls
                /\ IF r.ret = Panic THEN ReturnDeferred(Panic, "panic")
                   ELSE IF r.ret = "error" THEN ReturnDeferred("error", "walk")
                   ELSE IF next > Len(indexTree) THEN ReturnDeferred("nil", "success")
                   ELSE UNCHANGED <<indexPc, indexResult, tempDir>>
    /\ UNCHANGED <<indexArgs, indexTree, indexReq, gitCalls>>
    /\ UNCHANGED <<chunkerVars, deriveVars, rankVars, searchVars, portVars, fileVars, classVars,
                   concVars, stdioVars>>

IndexInit ==
    IndexStart /\ ChunkerIdle /\ DeriveIdle /\ RankIdle /\ SearchIdle
    /\ PortIdle /\ FileIdle /\ ClassIdle /\ ConcIdle /\ StdioIdle

IndexNext ==
    \/ Execute
    \/ HandleRepositoryIndexing
    \/ CreateTempDir
    \/ CloneRepository
    \/ CheckoutBranch
    \/ VisitEntry

SpecIndex == IndexInit /\ [][IndexNext]_vars

\* C7: once IndexRepository has created its temporary clone directory, the
\* directory no longer exists when IndexRepository has returned, whichever
\* way it returned: clone failure, checkout failure, walk failure, success.
TempDirGoneOnReturn ==
    (indexPc = "returned" /\ tempDir.created) => ~tempDir.exists

\* IndexRepository has returned the error of a failed walk, and the
\* directory it had created is gone.
TempDirGoneAfterWalkFailure ==
    /\ indexPc = "returned"
    /\ indexResult.exit = "walk"
    /\ tempDir.created
    /\ ~tempDir.exists

\* The paths for which the callback has run so far.
VisitedPaths == [k \in 1..Len(visited) |-> visited[k].path]

\* Entry j lies below a hidden directory whose path contains ".git", which
\* the walk passes over.
Pruned(tree, j) ==
    \E i \in 1..(j - 1) :
        /\ tree[i].dir
        /\ HasPrefix(Base(tree[i].path), <<".">>)
        /\ Contains(tree[i].path, DotGit)
        /\ HasPrefix(tree[j].path, tree[i].path \o <<"/">>)

\* The paths a walk that is not aborted visits, in order.
WalkOrder(tree) ==
    LET idx == {j \in 1..Len(tree) : ~Pruned(tree, j)}
        nth(k) == CHOOSE j \in idx : Cardinality({i \in idx : i < j}) = k - 1
    IN  [k \in 1..Cardinality(idx) |-> tree[nth(k)].path]

IsPrefixOf(s, t) == Len(s) <= Len(t) /\ SubSeq(t, 1, Len(s)) = s

VendorCallFailed == \E k \in 1..Len(vendorCalls) : ~vendorCalls[k].ok

AccessFailed == \E k \in 1..Len(visited) : visited[k].decision = "accessError"

\* C8: once an embedding call or a store call has failed for a file, the
\* walk goes on through the later entries in order, and unless the file
\* system itself fails it visits every one of them and processDirectory
\* returns no error.
VendorFailureNeverAbortsWalk ==
    (indexPc \in {"walking", "returned"} /\ VendorCallFailed /\ ~AccessFailed) =>
        /\ IsPrefixOf(VisitedPaths, WalkOrder(indexTree))
        /\ indexPc = "returned" =>
            /\ VisitedPaths = WalkOrder(indexTree)
            /\ indexResult.err = "nil"

\* The walk has returned without error although a vendor call failed for
\* one file, and a later file was processed.
WalkCompletedAfterVendorFailure ==
    /\ indexPc = "returned"
    /\ indexResult.err = "nil"
    /\ \E k \in 1..Len(visited) : \E m \in (k + 1)..Len(visited) :
        /\ visited[k].decision = "failed"
        /\ visited[m].decision = "processed"

\* A path the walk is to skip: a hidden base name, a place below a hidden
\* directory, a denylisted extension, more than MaxFileSize bytes, or a NUL
\* byte or a byte above 127 among the first SniffLen bytes.
SkippedPath(path, data) ==
    LET names == Split(SliceFrom(path, Len(TempDirName) + 1), "/")
    IN  \/ \E k \in 1..Len(names) : HasPrefix(names[k], <<".">>)
        \/ ToLower(Ext(path)) \in BinaryExtensions
        \/ FileSize[data] > MaxFileSize
        \/ HasBinaryData[data]

\* C9: no chunk has been embedded or stored for a skipped path.
NoVendorCallForSkippedPath ==
    \A k \in 1..Len(vendorCalls) : ~SkippedPath(vendorCalls[k].source, vendorCalls[k].data)

\* The path of a file relative to the root of the walk, slash-separated.
RelativeToRoot(path) == SliceFrom(path, Len(TempDirName) + 1)

\* C11: the filePath that goes with every chunk of a processed file is the
\* path of the file relative to the root of the walk, and it does not start
\* with "/", whatever the names inside the repository.
StoredFilePathIsRelative ==
    \A k \in 1..Len(vendorCalls) :
        /\ vendorCalls[k].filePath = RelativeToRoot(vendorCalls[k].source)
        /\ ~HasPrefix(vendorCalls[k].filePath, <<"/">>)

\* The request names no repository: params is nil, or it holds no
\* "repoUrl", or one that is empty or not a string.
InvalidRepoUrl(req) ==
    /\ req.entry \in {"RepoIndexer.Execute", "RepoIndexerHandler.HandleRepositoryIndexing"}
    /\ \/ req.body \in {"nil", "malformed"}
       \/ req.repoUrl.t # "string"
       \/ req.repoUrl.v = <<>>

\* C15: RepoIndexer.Execute (and the indexing handler) answers a request
\* that names no repository with an error, and then no temporary directory
\* was created, no clone was attempted and nothing was embedded or stored.
InvalidRepoUrlRejectedBeforeWork ==
    (InvalidRepoUrl(indexReq) /\ indexPc # "request") =>
        /\ indexPc = "returned"
        /\ indexResult.err = "error"
        /\ ~tempDir.created
        /\ gitCalls = <<>>
        /\ vendorCalls = <<>>

\* RepoIndexer.Execute has refused params whose "repoUrl" is the empty string.
ExecuteRefusedEmptyRepoUrl ==
    /\ indexReq.entry = "RepoIndexer.Execute"
    /\ indexReq.body = "map"
    /\ indexReq.repoUrl = StrVal(<<>>)
    /\ indexPc = "returned"
    /\ indexResult = [err |-> "error", exit |-> "validation"]


\* processDirectory has run to its end: filepath.Walk has returned, with
\* or without error, and the counters have their final values.
WalkFinished == indexPc = "returned" /\ indexResult.exit \in {"success", "walk"}

\* The entries the callback received without an access error, by their
\* position in visited: those it counted in fileCount.
CountedEntries == {k \in 1..Len(visited) : visited[k].decision # "accessError"}

IsDirEntry(k) ==
    \E j \in 1..Len(indexTree) : indexTree[j].path = visited[k].path /\ indexTree[j].dir

HasHiddenName(k) == HasPrefix(Base(visited[k].path), <<".">>)

NonDirEntries == {k \in CountedEntries : ~IsDirEntry(k)}
HiddenDirEntries == {k \in CountedEntries : IsDirEntry(k) /\ HasHiddenName(k)}
PlainDirEntries == {k \in CountedEntries : IsDirEntry(k) /\ ~HasHiddenName(k)}
ProcessedEntries == {k \in NonDirEntries : visited[k].decision = "processed"}

\* The clone of the example: main.go (200 ASCII bytes), .git/HEAD and
\* photo.png, walked to the end without any read or vendor failure.
ExampleTreeWalked ==
    /\ indexTree = TreeOf({"git", "main", "photo"})
    /\ indexPc = "returned" /\ indexResult.exit = "success"
    /\ faults = 0
    /\ \A k \in 1..Len(visited) :
           visited[k].path = PathOf(<<"m", "a", "i", "n", ".", "g", "o">>) => visited[k].data = "ascii"

GitSucceeded(op) == \E k \in 1..Len(gitCalls) : gitCalls[k].op = op /\ gitCalls[k].ok

GitAttempted(op) == \E k \in 1..Len(gitCalls) : gitCalls[k].op = op

\* The branch is one IndexRepository checks out after the clone.
BranchToCheckOut ==
    indexArgs.branch \notin {<<>>, <<"m", "a", "i", "n">>, <<"m", "a", "s", "t", "e", "r">>}

\* The walk has started: IndexRepository has called processDirectory.
WalkStarted == indexPc = "walking" \/ visited # <<>>

\* C21: the walk starts only after a successful clone and, for a branch
\* other than "", "main" and "master", a successful checkout that follows
\* it; the checkout is attempted for exactly those branches; when the clone
\* or the checkout fails, IndexRepository returns an error, nothing has
\* been visited and no embedding or store call has been made.
WalkOnlyAfterCloneAndCheckout ==
    /\ WalkStarted =>
         /\ GitSucceeded("clone")
         /\ BranchToCheckOut =>
              /\ GitSucceeded("checkout")
              /\ gitCalls = <<[op |-> "clone", ok |-> TRUE], [op |-> "checkout", ok |-> TRUE]>>
    /\ GitAttempted("checkout") => (BranchToCheckOut /\ gitCalls[1] = [op |-> "clone", ok |-> TRUE])
    /\ (GitSucceeded("clone") /\ BranchToCheckOut /\ indexPc # "checkout")
           => GitAttempted("checkout")
    /\ (\E k \in 1..Len(gitCalls) : ~gitCalls[k].ok) =>
         /\ indexPc = "returned"
         /\ indexResult.err = "error"
         /\ indexResult.exit \in {"clone", "checkout"}
         /\ visited = <<>>
         /\ vendorCalls = <<>>

\* The checkout of the branch "dev" failed after a successful clone, and
\* IndexRepository returned its error without walking.
CheckoutFailedBeforeWalk ==
    /\ indexPc = "returned"
    /\ indexArgs.branch = DevBranch
    /\ gitCalls = <<[op |-> "clone", ok |-> TRUE], [op |-> "checkout", ok |-> FALSE]>>
    /\ indexResult = [err |-> "error", exit |-> "checkout"]
    /\ visited = <<>> /\ vendorCalls = <<>>

\* C22: every chunk the ingestion hands to the embedding call and to the
\* vector store has non-empty content, whatever the content of the files
\* that pass the checks of the walk.
EveryIngestedChunkIsNonEmpty ==
    \A k \in 1..Len(vendorCalls) : vendorCalls[k].size > 0

\* The same for the files that are not empty.
ChunksOfNonEmptyFilesAreNonEmpty ==
    \A k \in 1..Len(vendorCalls) :
        FileSize[vendorCalls[k].data] > 0 => vendorCalls[k].size > 0

\* The entries below the root that could not be read: the walker reported
\* an error when it accessed them, or the read of their content failed.
UnreadableBelowRoot ==
    {k \in 1..Len(visited) :
        /\ visited[k].decision \in {"accessError", "unreadable"}
        /\ visited[k].path # TempDirName}

\* C24: an unreadable entry below the root never ends the walk: the walk
\* goes on to the entries that follow it, the entry is counted as skipped,
\* and the walk returns an error only for a failure to access the root.
UnreadableFilesNeverEndWalk ==
    /\ (indexPc = "returned" /\ indexResult.exit = "walk")
           => visited[Len(visited)].path = TempDirName
    /\ indexPc = "returned" =>
           \A k \in UnreadableBelowRoot :
               k = Len(visited) => visited[k].path = indexTree[Len(indexTree)].path
    /\ walk.skippedCount >= Cardinality(UnreadableBelowRoot)

\* The part of it that is about the read of the content: a file whose
\* read fails is counted as skipped and does not end the walk.
FailedReadsNeverEndWalk ==
    /\ \A k \in 1..Len(visited) :
           (visited[k].decision = "unreadable" /\ k = Len(visited) /\ indexPc = "returned")
               => (indexResult.exit = "success" /\ visited[k].path = indexTree[Len(indexTree)].path)
    /\ walk.skippedCount >= Cardinality({k \in 1..Len(visited) : visited[k].decision = "unreadable"})

\* "owner/name" from the last two non-empty pieces of the URL between
\* "/", the name without a trailing ".git".
CanonicalRepository(url) ==
    LET segments == SelectSeq(Split(url, "/"), LAMBDA piece : piece # <<>>)
        n == Len(segments)
    IN  segments[n - 1] \o <<"/">> \o StripGitSuffix(segments[n])

\* C25: every chunk the ingestion stores carries as repository the string
\* "owner/name" made of the last two non-empty pieces of the URL, both
\* non-empty; with a "/" at the end of the URL it is the same string as
\* without: "acme/widgets" for https://github.com/acme/widgets/.
StoredRepositoryIsOwnerSlashName ==
    \A k \in 1..Len(vendorCalls) :
        (vendorCalls[k].op = "store" /\ vendorCalls[k].ok) =>
            /\ vendorCalls[k].repository = CanonicalRepository(indexArgs.repoURL)
            /\ Len(Split(vendorCalls[k].repository, "/")) = 2
            /\ \A piece \in {1, 2} : Split(vendorCalls[k].repository, "/")[piece] # <<>>
            /\ indexArgs.repoURL = TrailingSlashUrl
                   => vendorCalls[k].repository = ExampleRepository

\* The same for the URLs that do not end in "/".
StoredRepositoryOfPlainUrls ==
    ~HasSuffix(indexArgs.repoURL, <<"/">>) => StoredRepositoryIsOwnerSlashName

\* The position in the clone of the file a vendor call was made for.
TreeIndex(path) == CHOOSE j \in 1..Len(indexTree) : indexTree[j].path = path

\* The call ends the work on its file: it failed, or it stored the last
\* chunk of the file.
EndsItsFile(call) ==
    \/ ~call.ok
    \/ call.op = "store" /\ call.chunk = Len(FileChunks[call.data]) - 1

\* C27: the vendor calls of one ingestion, in the order in which they were
\* made: the first is the embedding of the first chunk of a file; a store
\* call directly follows the successful embedding of the same chunk of the
\* same file; an embedding call directly follows the successful store of
\* the chunk before it in the same file, or the last call made for a file
\* that comes earlier in the walk.
VendorCallsAreSequential ==
    \A k \in 1..Len(vendorCalls) :
        LET call == vendorCalls[k]
            prev == vendorCalls[k - 1]
        IN  /\ k = 1 => (call.op = "embed" /\ call.chunk = 0)
            /\ call.op = "store" =>
                   /\ k > 1
                   /\ prev.op = "embed" /\ prev.ok
                   /\ prev.source = call.source /\ prev.chunk = call.chunk
            /\ (call.op = "embed" /\ k > 1) =>
                   \/ /\ prev.op = "store" /\ prev.ok
                      /\ prev.source = call.source /\ call.chunk = prev.chunk + 1
                   \/ /\ EndsItsFile(prev)
                      /\ TreeIndex(prev.source) < TreeIndex(call.source)
                      /\ call.chunk = 0
            /\ (call.op = "embed" /\ call.ok /\ k < Len(vendorCalls)) =>
                   vendorCalls[k + 1].op = "store"

\* The two chunks of one file have been embedded and stored, and the first
\* chunk of the next file has been embedded after them.
TwoChunksThenNextFile ==
    /\ Len(vendorCalls) >= 5
    /\ vendorCalls[1].data = "twoChunks"
    /\ [k \in 1..5 |-> vendorCalls[k].op] = <<"embed", "store", "embed", "store", "embed">>
    /\ [k \in 1..5 |-> vendorCalls[k].chunk] = <<0, 0, 1, 1, 0>>
    /\ vendorCalls[5].source # vendorCalls[1].source

\* The store calls of the ingestion that succeeded, by their position.
StoredCalls == {k \in 1..Len(vendorCalls) : vendorCalls[k].op = "store" /\ vendorCalls[k].ok}

IdOfCall(k) == VectorId(vendorCalls[k].repository, vendorCalls[k].filePath)

\* The entries the vector store holds after the upserts of the ingestion:
\* one for every vector ID written.
StoreEntries == {IdOfCall(k) : k \in StoredCalls}

\* C28: two chunks that differ in repository, branch, file path or position
\* in the file are written under different vector IDs, so that the store
\* holds one entry for every chunk stored and a file of k chunks ingested
\* without failure has k entries.
StoreNeverOverwrites ==
    /\ \A j, k \in StoredCalls :
           (vendorCalls[j].repository # vendorCalls[k].repository
              \/ vendorCalls[j].branch # vendorCalls[k].branch
              \/ vendorCalls[j].filePath # vendorCalls[k].filePath
              \/ vendorCalls[j].chunk # vendorCalls[k].chunk)
               => IdOfCall(j) # IdOfCall(k)
    /\ Cardinality(StoreEntries) = Cardinality(StoredCalls)

\* The same for chunks that come from different files.
ChunksOfDifferentFilesKeepApart ==
    \A j, k \in StoredCalls :
        vendorCalls[j].source # vendorCalls[k].source => IdOfCall(j) # IdOfCall(k)

\* The vendor calls made for the file at path, in their order.
CallsFor(path) == SelectSeq(vendorCalls, LAMBDA call : call.source = path)

\* The calls that embed and store the chunks 0 .. n-1 of a file, all
\* successful: the operations and the chunk numbers, in order.
FullCalls(n) ==
    [k \in 1..(2 * n) |->
        [op |-> IF k % 2 = 1 THEN "embed" ELSE "store", chunk |-> (k - 1) \div 2, ok |-> TRUE]]

Shape(calls) ==
    [k \in 1..Len(calls) |-> [op |-> calls[k].op, chunk |-> calls[k].chunk, ok |-> calls[k].ok]]

\* The decisions that count the entry in skippedCount.
SkipDecisions ==
    {"gitDirectory", "hiddenDirectory", "hiddenFile", "binaryExtension", "unreadable",
     "tooLarge", "binaryData", "failed"}

DecisionCount(decisions) ==
    Cardinality({k \in 1..Len(visited) : visited[k].decision \in decisions})

-----------------------------------------------------------------------------
(* The vector store: the production VectorStore / PineconeStore and the    *)
(* MockVectorStore / MockPineconeStore the tests put in its place.         *)

\* its content is; the only error is the vendor's.
VectorStoreStore(text, embedding, vendorOk) ==
    [done |-> TRUE, err |-> IF vendorOk THEN "nil" ELSE "error",
     failed |-> ~vendorOk, chunks |-> <<>>]

\* VectorStore.Search(query, repository, branch, limit): the query goes to
\* index.QueryByVectorValues with TopK uint32(limit); the only error is the
\* vendor's.
VectorStoreSearch(index, query, limit, vendorOk) ==
    [done |-> TRUE, err |-> IF vendorOk THEN "nil" ELSE "error",
     failed |-> ~vendorOk,
     chunks |-> IF vendorOk THEN StoreSearch(index, limit) ELSE <<>>]

\* MockVectorStore.Store(chunk): the injected error first, then the test
\* on the content.
MockStore(text, embedding, injected) ==
    [done |-> TRUE,
     err |-> IF injected \/ text = <<>> THEN "error" ELSE "nil",
     failed |-> injected, chunks |-> <<>>]

\* MockVectorStore.Search(query, repository, branch, limit): the injected
\* error first, then the tests on the query and on the limit; one canned
\* chunk otherwise.
MockSearch(query, limit, injected) ==
    [done |-> TRUE,
     err |-> IF injected \/ Len(query) = 0 \/ limit <= 0 THEN "error" ELSE "nil",
     failed |-> injected,
     chunks |-> IF injected \/ Len(query) = 0 \/ limit <= 0 THEN <<>> ELSE <<"test.go">>]

-----------------------------------------------------------------------------
(* Specification of the vector store: one call, made on the production     *)
(* store and on the mock.                                                  *)

PortContents == {<<>>, <<"a">>, <<"a", "b">>}
PortVectors == {<<>>, <<1, 2, 3>>}
PortLimits == {-1, 0, 1, 2, 10}
PortIndex == IndexOf(2, 0)

PortStart ==
    /\ portIn \in
         {[op |-> "Store", content |-> c, query |-> v, limit |-> 0, index |-> <<>>] :
            c \in PortContents, v \in PortVectors}
         \cup
         {[op |-> "Search", content |-> <<>>, query |-> v, limit |-> l, index |-> PortIndex] :
            v \in PortVectors, l \in PortLimits}
    /\ prodOut = NoPortResult
    /\ mockOut = NoPortResult

PortOthersIdle ==
    /\ ChunkerIdle /\ DeriveIdle /\ RankIdle /\ SearchIdle /\ IndexIdle
    /\ FileIdle /\ ClassIdle /\ ConcIdle /\ StdioIdle

PortUnchanged ==
    UNCHANGED <<portIn, chunkerVars, deriveVars, rankVars, searchVars, indexVars,
                fileVars, classVars, concVars, stdioVars>>

CallVectorStoreStore ==
    /\ portIn.op = "Store"
    /\ ~prodOut.done
    /\ \E vendorOk \in BOOLEAN :
         prodOut' = VectorStoreStore(portIn.content, portIn.query, vendorOk)
    /\ UNCHANGED mockOut
    /\ PortUnchanged

CallVectorStoreSearch ==
    /\ portIn.op = "Search"
    /\ ~prodOut.done
    /\ \E vendorOk \in BOOLEAN :
         prodOut' = VectorStoreSearch(portIn.index, portIn.query, portIn.limit, vendorOk)
    /\ UNCHANGED mockOut
    /\ PortUnchanged

CallMockStore ==
    /\ portIn.op = "Store"
    /\ ~mockOut.done
    /\ \E injected \in BOOLEAN :
         mockOut' = MockStore(portIn.content, portIn.query, injected)
    /\ UNCHANGED prodOut
    /\ PortUnchanged

CallMockSearch ==
    /\ portIn.op = "Search"
    /\ ~mockOut.done
    /\ \E injected \in BOOLEAN :
         mockOut' = MockSearch(portIn.query, portIn.limit, injected)
    /\ UNCHANGED prodOut
    /\ PortUnchanged

PortInit == PortStart /\ PortOthersIdle

PortNext ==
    \/ CallVectorStoreStore
    \/ CallVectorStoreSearch
    \/ CallMockStore
    \/ CallMockSearch

SpecPort == PortInit /\ [][PortNext]_vars

\* Both stores have answered, and neither answer is a vendor failure or an
\* error injected into the mock.
BothStoresAnswered ==
    /\ prodOut.done /\ ~prodOut.failed
    /\ mockOut.done /\ ~mockOut.failed

\* C16: the production store and the mock accept and reject the same
\* inputs: whenever both have answered the same call without a vendor
\* failure, either both return an error or neither does.
StoresRejectTheSameInputs ==
    BothStoresAnswered => (prodOut.err = "nil" <=> mockOut.err = "nil")

\* The case of Store alone: a chunk the mock refuses for its empty
\* content is refused by the production store too.
EmptyContentRefusedByBothStores ==
    (portIn.op = "Store" /\ portIn.content = <<>> /\ prodOut.done /\ ~prodOut.failed)
        => prodOut.err # "nil"


-----------------------------------------------------------------------------
(* Specification of processFile called directly, as the tests call it,     *)
(* on each indexer of the repository, with the production vendors or with  *)
(* the mocks of the tests behind it.                                       *)

\* The indexers: RepoIndexerService (tools/internal/service), RepoIndexer
\* of tools/tools and RepoIndexer of github-mcpserver/tools/tools.
FileVariants == Variants \cup {"tools"}

\* "production": the OpenAI client and the Pinecone store, whose calls fail
\* when the vendor does; "mocks": the mocks of the tests.
VendorKinds == {"production", "mocks"}

FirstEmptyChunk(pieces) ==
    IF \E k \in 1..Len(pieces) : Len(pieces[k]) = 0
    THEN CHOOSE k \in 1..Len(pieces) :
             /\ Len(pieces[k]) = 0
             /\ \A j \in 1..(k - 1) : Len(pieces[j]) # 0
    ELSE 0

\* The call that fails with the mocks behind processFile: none but the one
\* that carries an empty chunk.  mocks.MockOpenAIClient.GetEmbedding (the
\* service's mock) refuses an empty text; MockOpenAIClient.CreateEmbeddings
\* of the tools package embeds anything and MockVectorStore.Store refuses
\* the empty content.
MockFaults(variant, data) ==
    LET k == FirstEmptyChunk(FileChunks[data])
    IN  IF k = 0 THEN {NoFault}
        ELSE {[chunk |-> k, op |-> IF variant = "service" THEN "embed" ELSE "store"]}

TestFilePaths == {<<"m", "a", "i", "n", ".", "g", "o">>, <<"b", "i", "n", "a", "r", "y", ".", "b", "i", "n">>}

FileStart ==
    /\ fileIn \in [variant : FileVariants, data : DataClasses, filePath : TestFilePaths,
                   repoURL : IndexUrls, branch : {MasterBranch}, vendors : VendorKinds]
    /\ fileOut = NoFileResult
    /\ filePc = "ready"

CallProcessFile ==
    /\ filePc = "ready"
    /\ \E fault \in (IF fileIn.vendors = "mocks"
                     THEN MockFaults(fileIn.variant, fileIn.data)
                     ELSE VendorFaults(fileIn.data)) :
         fileOut' = ProcessFile(fileIn.variant, fileIn.data, fileIn.filePath,
                                fileIn.repoURL, fileIn.branch, fault)
    /\ filePc' = "done"
    /\ UNCHANGED <<fileIn, chunkerVars, deriveVars, rankVars, searchVars, indexVars,
                   portVars, classVars, concVars, stdioVars>>

FileInit ==
    /\ FileStart
    /\ ChunkerIdle /\ DeriveIdle /\ RankIdle /\ SearchIdle /\ IndexIdle
    /\ PortIdle /\ ClassIdle /\ ConcIdle /\ StdioIdle

FileNext == CallProcessFile

SpecFile == FileInit /\ [][FileNext]_vars

\* processFile has returned, and the repository URL it was given is one
\* the derivation of the repository name does not panic on.
ProcessFileReturned == filePc = "done" /\ fileOut.err # Panic

\* C17: processFile called with content that holds a NUL byte or a byte
\* >= 128 within its first 1000 bytes returns an error and makes no
\* embedding and no store call, on every indexer.
BinaryContentRefusedByProcessFile ==
    (ProcessFileReturned /\ HasBinaryData[fileIn.data])
        => (fileOut.err = "error" /\ fileOut.calls = <<>>)

\* The github-mcpserver indexer refused a binary content.
GithubRefusedBinaryContent ==
    /\ filePc = "done"
    /\ fileIn.variant = "github"
    /\ HasBinaryData[fileIn.data]
    /\ fileOut = [err |-> "error", calls |-> <<>>]

\* C18: processFile called with empty content returns an error and leaves
\* nothing in the vector store: no store call of it succeeds.
EmptyContentRefusedByProcessFile ==
    (ProcessFileReturned /\ FileSize[fileIn.data] = 0)
        => /\ fileOut.err = "error"
           /\ \A k \in 1..Len(fileOut.calls) :
                  ~(fileOut.calls[k].op = "store" /\ fileOut.calls[k].ok)

\* The same with the mocks of the tests behind processFile.
EmptyContentRefusedWithMocks ==
    fileIn.vendors = "mocks" => EmptyContentRefusedByProcessFile


-----------------------------------------------------------------------------
(* Specification of the classification of one file: what the callback of   *)
(* processDirectory decides for a file of a given relative path and        *)
(* content, when the file can be read and the vendors answer.              *)

ClassPaths == {
    <<".", "g", "i", "t", "/", "c", "o", "n", "f", "i", "g">>,
    <<".", "g", "i", "t", "i", "g", "n", "o", "r", "e">>,
    <<"n", "o", "d", "e", "_", "m", "o", "d", "u", "l", "e", "s", "/", ".", "g", "i", "t", "/", "H", "E", "A", "D">>,
    <<"m", "a", "i", "n", ".", "g", "o">>,
    <<"R", "E", "A", "D", "M", "E", ".", "m", "d">>,
    <<"p", "h", "o", "t", "o", ".", "p", "n", "g">>,
    <<"s", "r", "c", "/", "u", "t", "i", "l", ".", "g", "o">>,
    <<"D", "I", "R", "C">>,
    <<"i", "n", "d", "e", "x", ".", "l", "o", "c", "k">>,
    <<".", "v", "s", "c", "o", "d", "e", "/", "a", "p", "p", ".", "g", "o">>,
    <<"a", "r", "c", "h", "i", "v", "e", ".", "T", "A", "R">>,
    <<"d", "o", "c", "s", "/", "g", "u", "i", "d", "e", ".", "m", "d">> }

ClassStart ==
    /\ classIn \in [path : ClassPaths, data : DataClasses]
    /\ classOut = Unset
    /\ classPc = "ready"

\* The checks of the callback on a regular file: the name, the extension,
\* the size and the first bytes, then processFile.
Classify ==
    /\ classPc = "ready"
    /\ classOut' = WalkFn("service", ExampleGitUrl, MainBranch, classIn.path,
                          FALSE, FALSE, FALSE, classIn.data, NoFault).decision
    /\ classPc' = "done"
    /\ UNCHANGED <<classIn, chunkerVars, deriveVars, rankVars, searchVars, indexVars,
                   portVars, fileVars, concVars, stdioVars>>

ClassInit ==
    /\ ClassStart
    /\ ChunkerIdle /\ DeriveIdle /\ RankIdle /\ SearchIdle /\ IndexIdle
    /\ PortIdle /\ FileIdle /\ ConcIdle /\ StdioIdle

ClassNext == Classify

SpecClass == ClassInit /\ [][ClassNext]_vars

RejectedExamples == {<<".", "g", "i", "t", "/", "c", "o", "n", "f", "i", "g">>, <<".", "g", "i", "t", "i", "g", "n", "o", "r", "e">>, <<"n", "o", "d", "e", "_", "m", "o", "d", "u", "l", "e", "s", "/", ".", "g", "i", "t", "/", "H", "E", "A", "D">>}

AcceptedExamples == {<<"m", "a", "i", "n", ".", "g", "o">>, <<"R", "E", "A", "D", "M", "E", ".", "m", "d">>}

\* The first 1000 bytes of the content, or all of them when there are
\* fewer, are ASCII text.
FirstBytesAreText(data) ==
    \A i \in 1..Min(FileSize[data], 1000) : Content[data][i] \in {"a", NL}

\* C20: ".git/config", ".gitignore" and "node_modules/.git/HEAD" are
\* rejected whatever they hold; "main.go" and "<<"R", "E", "A", "D", "M", "E", ".", "m", "d">>.md" are rejected for
\* their size exactly when the content is longer than 100000 bytes, and
\* are accepted when the content is no longer than that and its first 1000
\* bytes are ASCII text, whatever bytes follow.
ClassificationOfExamples ==
    classPc = "done" =>
        /\ classIn.path \in RejectedExamples => classOut # "processed"
        /\ classIn.path \in AcceptedExamples =>
            /\ classOut = "tooLarge" <=> FileSize[classIn.data] > 100000
            /\ (FileSize[classIn.data] <= 100000 /\ FirstBytesAreText(classIn.data))
                   => classOut = "processed"
            /\ classIn.data = "big" => classOut = "tooLarge"
            /\ classIn.data = "exact" => classOut = "processed"

\* main.go, whose 1000 first bytes are text and whose next byte is not, has
\* been accepted.
LateBinaryAccepted ==
    /\ classPc = "done"
    /\ classIn = [path |-> <<"m", "a", "i", "n", ".", "g", "o">>, data |-> "lateBinary"]
    /\ FirstBytesAreText("lateBinary")
    /\ \E i \in 1..FileSize.lateBinary : Content.lateBinary[i] = HighByte
    /\ classOut = "processed"


-----------------------------------------------------------------------------
(* Specification of two IndexRepository calls running at the same time, on *)
(* one file system: each creates its temporary directory, clones, walks    *)
(* and removes the directory, in any interleaving with the other.          *)

Invocations == {1, 2}

TempDirNames == {<<"/", "t", "m", "p", "/", "r", "e", "p", "o", "-", "1">>, <<"/", "t", "m", "p", "/", "r", "e", "p", "o", "-", "2">>, <<"/", "t", "m", "p", "/", "r", "e", "p", "o", "-", "3">>}

\* The names ioutil.TempDir("", "repo-") can return: it draws names until
\* os.Mkdir succeeds, so never the name of a directory that exists.
TempDirCandidatesAny(dirs) == TempDirNames

TempDirCandidates(dirs) == {name \in TempDirNames : dirs[name] = "absent"}

\* The clone of a repository, below the directory root.
TreeIn(root, groups) ==
    LET held(e) == e.group \in groups
        kept == SelectSeq(RepoEntries, held)
    IN  <<[path |-> root, dir |-> TRUE]>> \o
        [k \in 1..Len(kept) |-> [path |-> root \o <<"/">> \o kept[k].rel, dir |-> kept[k].dir]]

NoCounts == [fileCount |-> 0, skippedCount |-> 0, processedCount |-> 0]

Counted(counts, r) ==
    [fileCount |-> counts.fileCount + r.fileCount,
     skippedCount |-> counts.skippedCount + r.skippedCount,
     processedCount |-> counts.processedCount + r.processedCount]

\* processDirectory running alone on an intact clone, from entry pos on:
\* the decisions it takes, its counters and what it returns.
RECURSIVE WalkAlone(_, _, _, _)
WalkAlone(tree, pos, decisions, counts) ==
    IF pos > Len(tree) THEN [decisions |-> decisions, counts |-> counts, err |-> "nil"]
    ELSE LET r == WalkFn("service", ExampleGitUrl, MainBranch, tree[pos].path, tree[pos].dir,
                         FALSE, FALSE, "ascii", NoFault)
         IN  IF r.ret \in {"error", Panic}
             THEN [decisions |-> Append(decisions, r.decision),
                   counts |-> Counted(counts, r), err |-> r.ret]
             ELSE WalkAlone(tree, NextEntry(tree, pos, r.ret),
                            Append(decisions, r.decision), Counted(counts, r))

\* IndexRepository running alone: a failed clone returns its error, a
\* successful one is walked.
RunAlone(inv) ==
    IF ~inv.cloneOk THEN [decisions |-> <<>>, counts |-> NoCounts, err |-> "error"]
    ELSE WalkAlone(TreeIn(inv.dir, inv.groups), 1, <<>>, NoCounts)

ConcGroups == {{"main"}, {"git", "main", "photo"}, {"main", "src"}}

NoDir == <<>>

ConcStart ==
    /\ tempDirs = [name \in TempDirNames |-> "absent"]
    /\ invocations \in
         [Invocations ->
            {[pc |-> "ready", dir |-> NoDir, groups |-> g, cloneOk |-> c, pos |-> 0,
              decisions |-> <<>>, counts |-> NoCounts, err |-> Unset] :
                g \in ConcGroups, c \in BOOLEAN}]

ConcUnchanged ==
    UNCHANGED <<chunkerVars, deriveVars, rankVars, searchVars, indexVars, portVars, fileVars,
                classVars, stdioVars>>

\* ioutil.TempDir and the deferred os.RemoveAll.
ConcCreateTempDir(p) ==
    /\ invocations[p].pc = "ready"
    /\ \E name \in TempDirCandidates(tempDirs) :
         /\ tempDirs' = [tempDirs EXCEPT ![name] = "empty"]
         /\ invocations' = [invocations EXCEPT ![p].pc = "cloning", ![p].dir = name]
    /\ ConcUnchanged

\* git clone repoURL tempDir: it fails when the remote does, and when the
\* directory is gone or is not empty; a failure returns through the
\* deferred os.RemoveAll(tempDir).
ConcCloneRepository(p) ==
    LET inv == invocations[p]
        ok == inv.cloneOk /\ tempDirs[inv.dir] = "empty"
    IN  /\ inv.pc = "cloning"
        /\ IF ok
           THEN /\ tempDirs' = [tempDirs EXCEPT ![inv.dir] = "cloned"]
                /\ invocations' = [invocations EXCEPT ![p].pc = "walking", ![p].pos = 1]
           ELSE /\ tempDirs' = [tempDirs EXCEPT ![inv.dir] = "absent"]
                /\ invocations' = [invocations EXCEPT ![p].pc = "returned", ![p].err = "error"]
        /\ ConcUnchanged

\* One callback of filepath.Walk: the entry cannot be accessed when the
\* directory it lies in has been removed.  After the last entry, or on an
\* error, processDirectory and IndexRepository return and the deferred
\* os.RemoveAll(tempDir) runs.
ConcVisitEntry(p) ==
    LET inv == invocations[p]
        tree == TreeIn(inv.dir, inv.groups)
        gone == tempDirs[inv.dir] # "cloned"
        r == WalkFn("service", ExampleGitUrl, MainBranch, tree[inv.pos].path,
                    tree[inv.pos].dir, gone, FALSE, "ascii", NoFault)
        next == NextEntry(tree, inv.pos, r.ret)
        ends == r.ret \in {"error", Panic} \/ next > Len(tree)
    IN  /\ inv.pc = "walking"
        /\ invocations' =
             [invocations EXCEPT
                ![p].pos = next,
                ![p].decisions = Append(inv.decisions, r.decision),
                ![p].counts = Counted(inv.counts, r),
                ![p].pc = IF ends THEN "returned" ELSE "walking",
                ![p].err = IF ~ends THEN Unset
                           ELSE IF r.ret \in {"error", Panic} THEN r.ret ELSE "nil"]
        /\ tempDirs' = IF ends THEN [tempDirs EXCEPT ![inv.dir] = "absent"] ELSE tempDirs
        /\ ConcUnchanged

ConcInit ==
    /\ ConcStart
    /\ ChunkerIdle /\ DeriveIdle /\ RankIdle /\ SearchIdle /\ IndexIdle
    /\ PortIdle /\ FileIdle /\ ClassIdle /\ StdioIdle

ConcNext ==
    \E p \in Invocations :
        \/ ConcCreateTempDir(p)
        \/ ConcCloneRepository(p)
        \/ ConcVisitEntry(p)

SpecConc == ConcInit /\ [][ConcNext]_vars

InFlight(p) == invocations[p].pc \in {"cloning", "walking"}

\* C26: two IndexRepository calls in flight never have the same temporary
\* directory; the directory of a call in flight exists, whatever the other
\* call has removed; and what a call has decided and counted so far, and
\* what it returns, is what it decides, counts and returns running alone.
ConcurrentInvocationsAreIsolated ==
    \A p \in Invocations :
        LET inv == invocations[p]
            alone == RunAlone(inv)
        IN  /\ \A q \in Invocations \ {p} :
                   (InFlight(p) /\ InFlight(q)) => inv.dir # invocations[q].dir
            /\ InFlight(p) => tempDirs[inv.dir] # "absent"
            /\ inv.pc = "walking" => tempDirs[inv.dir] = "cloned"
            /\ inv.pc \in {"walking", "returned"} =>
                   /\ Len(inv.decisions) <= Len(alone.decisions)
                   /\ inv.decisions = SubSeq(alone.decisions, 1, Len(inv.decisions))
            /\ inv.pc = "returned" =>
                   /\ inv.decisions = alone.decisions
                   /\ inv.counts = alone.counts
                   /\ inv.err = alone.err

\* The first call has returned and removed its directory while the second
\* is in the middle of its walk, its clone intact.
OneReturnedWhileOtherWalks ==
    /\ invocations[1].pc = "returned" /\ invocations[1].err = "nil"
    /\ tempDirs[invocations[1].dir] = "absent"
    /\ invocations[2].pc = "walking"
    /\ Len(invocations[2].decisions) >= 1
    /\ tempDirs[invocations[2].dir] = "cloned"


-----------------------------------------------------------------------------
(* Specification of the stdio MCP server: it writes the serverInfo         *)
(* notification when it starts, handles one chunk of lines received on     *)
(* stdin, and writes the answers of the Go server as they arrive.          *)

MaxLines == 3

\* The id of a message that carries none (null); the requests have ids from 1.
NoId == 0

\* The lines a chunk can hold: an empty line, a line that JSON.parse
\* refuses, the text "null" (which parses, to a value without properties),
\* and requests.
BlankLine == [kind |-> "blank", jsonrpc |-> "none", method |-> "none", id |-> NoId]
MalformedLine == [kind |-> "malformed", jsonrpc |-> "none", method |-> "none", id |-> NoId]
NullLine == [kind |-> "null", jsonrpc |-> "none", method |-> "none", id |-> NoId]

Request(version, method, id) ==
    [kind |-> "request", jsonrpc |-> version, method |-> method, id |-> id]

RequestLines ==
    {Request("2.0", "getServerInfo", 1), Request("2.0", "chat", 2),
     Request("2.0", "invokeVectorSearch", 3), Request("2.0", "resources/list", 4),
     Request("1.0", "listOfferings", 5)}

RequestIds == {line.id : line \in RequestLines}

StdinLines == {BlankLine, MalformedLine, NullLine} \cup RequestLines

\* The chunks: up to MaxLines lines, no request twice.
StdinChunks ==
    {chunk \in UNION {[1..n -> StdinLines] : n \in 1..MaxLines} :
        \A j, k \in 1..Len(chunk) :
            (j # k /\ chunk[j] \in RequestLines) => chunk[j] # chunk[k]}

Message(type, code, id) == [type |-> type, code |-> code, id |-> id]

\* sendJsonRpc of the serverInfo notification, at startup.
ServerInfoNotification == Message("notification", 0, NoId)

ForwardedMethods ==
    {"chat", "invokeChat", "vectorSearch", "invokeVectorSearch",
     "indexRepository", "invokeIndexRepository"}

LocalMethods == {"getServerInfo", "listOfferings"}

\* The callback of input.split('\n').forEach for the lines from i on, inside
\* the try of the data handler: a line that JSON.parse refuses, or whose
\* value has no properties, throws out of forEach into the catch, which
\* sends the parse error with a null id; the lines after it are not read.
RECURSIVE HandleLines(_, _, _, _)
HandleLines(lines, i, out, calls) ==
    IF i > Len(lines) THEN [out |-> out, calls |-> calls]
    ELSE LET line == lines[i]
         IN  IF line.kind = "blank" THEN HandleLines(lines, i + 1, out, calls)
             ELSE IF line.kind \in {"malformed", "null"}
             THEN [out |-> Append(out, Message("error", -32700, NoId)), calls |-> calls]
             ELSE IF line.jsonrpc # "2.0"
             THEN HandleLines(lines, i + 1,
                              Append(out, Message("error", -32600, line.id)), calls)
             ELSE IF line.method \in LocalMethods
             THEN HandleLines(lines, i + 1, Append(out, Message("result", 0, line.id)), calls)
             ELSE IF line.method \in ForwardedMethods
             THEN HandleLines(lines, i + 1, out, calls \cup {line.id})
             ELSE HandleLines(lines, i + 1,
                              Append(out, Message("error", -32601, line.id)), calls)

StdioStart ==
    /\ stdinChunk \in StdinChunks
    /\ stdinPc = "waiting"
    /\ backendCalls = {}
    /\ stdout = <<ServerInfoNotification>>

StdioUnchanged ==
    UNCHANGED <<chunkerVars, deriveVars, rankVars, searchVars, indexVars, portVars, fileVars,
                classVars, concVars>>

\* process.stdin.on('data'): the whole chunk is handled in one turn of the
\* event loop; the forwarded requests are answered in later turns.
OnData ==
    /\ stdinPc = "waiting"
    /\ LET done == HandleLines(stdinChunk, 1, stdout, backendCalls)
       IN  /\ stdout' = done.out
           /\ backendCalls' = done.calls
    /\ stdinPc' = "handled"
    /\ UNCHANGED stdinChunk
    /\ StdioUnchanged

\* The axios.post of handleChat / handleVectorSearch / handleIndexRepository
\* resolves: sendResponse(response.data, id).
BackendReturns ==
    /\ \E id \in backendCalls :
         /\ stdout' = Append(stdout, Message("result", 0, id))
         /\ backendCalls' = backendCalls \ {id}
    /\ UNCHANGED <<stdinChunk, stdinPc>>
    /\ StdioUnchanged

\* The axios.post rejects: sendError(-32000, ..., id).
BackendFails ==
    /\ \E id \in backendCalls :
         /\ stdout' = Append(stdout, Message("error", -32000, id))
         /\ backendCalls' = backendCalls \ {id}
    /\ UNCHANGED <<stdinChunk, stdinPc>>
    /\ StdioUnchanged

StdioInit ==
    /\ StdioStart
    /\ ChunkerIdle /\ DeriveIdle /\ RankIdle /\ SearchIdle /\ IndexIdle
    /\ PortIdle /\ FileIdle /\ ClassIdle /\ ConcIdle

StdioNext == OnData \/ BackendReturns \/ BackendFails

SpecStdio == StdioInit /\ [][StdioNext]_vars

\* The data event is delivered, and every forwarded call returns or fails.
SpecStdioFair ==
    SpecStdio /\ WF_vars(OnData) /\ WF_vars(BackendReturns \/ BackendFails)

\* The chunk holds the JSON-RPC 2.0 request with this id.
Asked(id) ==
    \E k \in 1..Len(stdinChunk) :
        /\ stdinChunk[k].kind = "request"
        /\ stdinChunk[k].jsonrpc = "2.0"
        /\ stdinChunk[k].id = id

\* How many messages carrying the id have been written.
Answers(id) == Cardinality({k \in 1..Len(stdout) : stdout[k].id = id})

\* C30: for every JSON-RPC 2.0 request with an id received in the chunk,
\* the server eventually has written exactly one message carrying that id,
\* and never writes a second one, whatever other lines the chunk holds.
EveryRequestIsAnsweredOnce ==
    /\ [](\A id \in RequestIds : Answers(id) <= 1)
    /\ \A id \in RequestIds : Asked(id) ~> (Answers(id) = 1)

\* The chunk holds no line that fails to parse.
ChunkParses ==
    \A k \in 1..Len(stdinChunk) : stdinChunk[k].kind \notin {"malformed", "null"}

\* The same for the chunks in which every line parses.
EveryRequestOfParsedChunkIsAnswered ==
    \A id \in RequestIds : (ChunkParses /\ Asked(id)) ~> (Answers(id) = 1)

\* What is left unanswered once the chunk is handled and no call is
\* pending: nothing, said as an invariant.
NoRequestLeftUnanswered ==
    (stdinPc = "handled" /\ backendCalls = {})
        => \A id \in RequestIds : Asked(id) => Answers(id) = 1

====
